---- MODULE Spec2Model ----
(***************************************************************************)
(* Model of go-mdfmt's formatting pipeline: the rule engine               *)
(* (package formatter) mutating the tree of package parser, and the       *)
(* renderer (package renderer) serialising it back to Markdown text.      *)
(*                                                                         *)
(* A Go string is a sequence of one-character strings; len() is Len().    *)
(***************************************************************************)
EXTENDS Integers, Sequences, FiniteSets, TLC

VARIABLES formatters, doc, cfg, pc, out, prevDoc, prevOut, pass,
          registered, invoked, formatErr, calls, renderers,
          validateErr, find, batch, ps

\* the state of the command line tool around the core: the error of
\* Config.Validate, the state of FindFiles, of processFiles and of
\* ProcessFiles
toolVars == <<validateErr, find, batch, ps>>

vars == <<formatters, doc, cfg, pc, out, prevDoc, prevOut, pass,
          registered, invoked, formatErr, calls, renderers, toolVars>>

(***************************************************************************)
(* package strings                                                         *)
(***************************************************************************)

\* unicode.IsSpace restricted to the characters the model's texts use
IsSpace(c) == c \in {" ", "\n", "\t"}

Last(s) == s[Len(s)]

Front(s) == SubSeq(s, 1, Len(s) - 1)

RECURSIVE Flatten(_)
\* concatenation of a sequence of strings (strings.Builder writes in order)
Flatten(ss) == IF ss = <<>> THEN <<>> ELSE Head(ss) \o Flatten(Tail(ss))

RECURSIVE FieldsAcc(_, _, _)
FieldsAcc(s, cur, acc) ==
  IF s = <<>> THEN (IF cur = <<>> THEN acc ELSE Append(acc, cur))
  ELSE IF IsSpace(Head(s))
       THEN FieldsAcc(Tail(s), <<>>, IF cur = <<>> THEN acc ELSE Append(acc, cur))
       ELSE FieldsAcc(Tail(s), Append(cur, Head(s)), acc)

\* strings.Fields: the maximal runs of non-space characters
Fields(s) == FieldsAcc(s, <<>>, <<>>)

RECURSIVE SplitAcc(_, _, _, _)
SplitAcc(s, c, cur, acc) ==
  IF s = <<>> THEN Append(acc, cur)
  ELSE IF Head(s) = c
       THEN SplitAcc(Tail(s), c, <<>>, Append(acc, cur))
       ELSE SplitAcc(Tail(s), c, Append(cur, Head(s)), acc)

\* strings.Split(s, c) for a one-character separator; Split("", c) = [""]
Split(s, c) == SplitAcc(s, c, <<>>, <<>>)

RECURSIVE Join(_, _)
\* strings.Join
Join(ss, sep) ==
  IF ss = <<>> THEN <<>>
  ELSE IF Len(ss) = 1 THEN Head(ss)
  ELSE Head(ss) \o sep \o Join(Tail(ss), sep)

RECURSIVE TrimLeft(_, _)
TrimLeft(s, cut) ==
  IF s # <<>> /\ Head(s) \in cut THEN TrimLeft(Tail(s), cut) ELSE s

RECURSIVE TrimRight(_, _)
\* strings.TrimRight(s, cutset)
TrimRight(s, cut) ==
  IF s # <<>> /\ Last(s) \in cut THEN TrimRight(Front(s), cut) ELSE s

\* strings.TrimSpace
TrimSpace(s) == TrimLeft(TrimRight(s, {" ", "\n", "\t"}), {" ", "\n", "\t"})

\* strings.Repeat(c, n) for n >= 0 (a negative count panics in Go)
Repeat(c, n) == [i \in 1..n |-> c]

\* the character U+0060, which a TLA+ string literal cannot hold
Backtick == "BACKTICK"

\* strings.HasSuffix(s, "\n")
HasSuffixNL(s) == s # <<>> /\ Last(s) = "\n"

\* position of the first c in s at or after position from, 0 when absent
IndexFrom(s, c, from) ==
  IF \E i \in from..Len(s) : s[i] = c
  THEN CHOOSE i \in from..Len(s) : s[i] = c /\ \A j \in from..(i - 1) : s[j] # c
  ELSE 0

\* position of the last c in s within lo..hi, 0 when absent
LastIndexIn(s, c, lo, hi) ==
  IF \E i \in lo..hi : s[i] = c
  THEN CHOOSE i \in lo..hi : s[i] = c /\ \A j \in (i + 1)..hi : s[j] # c
  ELSE 0

RECURSIVE Digits(_)
\* fmt.Sprintf("%d", n) for n >= 0
Digits(n) ==
  LET d == <<"0", "1", "2", "3", "4", "5", "6", "7", "8", "9">>[(n % 10) + 1]
  IN IF n < 10 THEN <<d>> ELSE Append(Digits(n \div 10), d)

(***************************************************************************)
(* package regexp: the patterns the program compiles, matched with Go's    *)
(* leftmost-first semantics.  Each XMatchEnd(s, i) is the last position of *)
(* the match that starts at position i, or 0 when none starts there.       *)
(***************************************************************************)

\* \w of the regexp syntax
IsWord(c) ==
  c \in {"a", "b", "c", "d", "e", "f", "g", "h", "i", "j", "k", "l", "m",
         "n", "o", "p", "q", "r", "s", "t", "u", "v", "w", "x", "y", "z",
         "D", "H", "C", "0", "1", "2", "3", "4", "5", "6", "7", "8", "9", "_"}

\* `\[[^\]]*\]\([^)]*\)`
LinkMatchEnd(s, i) ==
  IF i > Len(s) \/ s[i] # "[" THEN 0
  ELSE LET j == IndexFrom(s, "]", i + 1)
       IN IF j = 0 \/ j + 1 > Len(s) THEN 0
          ELSE IF s[j + 1] # "(" THEN 0
          ELSE IndexFrom(s, ")", j + 2)

\* open \s+ ([^close]+) \s+ close : the pattern of normalizeInlineCode
\* (open = close = backtick) and of normalizeLinks (open "[", close "]")
PaddedMatchEnd(s, i, open, close) ==
  IF i > Len(s) \/ s[i] # open THEN 0
  ELSE LET j == IndexFrom(s, close, i + 1)
       IN IF j = 0 \/ j - i - 1 < 3 THEN 0
          ELSE IF IsSpace(s[i + 1]) /\ IsSpace(s[j - 1]) THEN j ELSE 0

\* the captured group of a padded match from i to j: the leading \s+ is
\* greedy but leaves one character to the group and one to the trailing \s+
PaddedGroup(s, i, j) ==
  LET inner == SubSeq(s, i + 1, j - 1)
      run == Len(inner) - Len(TrimLeft(inner, {" ", "\n", "\t"}))
      lead == IF run > Len(inner) - 2 THEN Len(inner) - 2 ELSE run
  IN SubSeq(inner, lead + 1, Len(inner) - 1)

RECURSIVE PaddedReplaceAll(_, _, _, _)
\* ReplaceAllString(text, open + "$1" + close) with the padded pattern
PaddedReplaceAll(s, i, open, close) ==
  IF i > Len(s) THEN <<>>
  ELSE LET j == PaddedMatchEnd(s, i, open, close)
       IN IF j = 0 THEN <<s[i]>> \o PaddedReplaceAll(s, i + 1, open, close)
          ELSE <<open>> \o PaddedGroup(s, i, j) \o <<close>>
               \o PaddedReplaceAll(s, j + 1, open, close)

\* `\b_([^_]+)_\b`
EmphasisMatchEnd(s, i) ==
  IF i > Len(s) \/ s[i] # "_" THEN 0
  ELSE IF i > 1 /\ IsWord(s[i - 1]) THEN 0
  ELSE LET j == IndexFrom(s, "_", i + 1)
       IN IF j = 0 \/ j = i + 1 THEN 0
          ELSE IF j < Len(s) /\ IsWord(s[j + 1]) THEN 0 ELSE j

RECURSIVE EmphasisReplaceAll(_, _)
EmphasisReplaceAll(s, i) ==
  IF i > Len(s) THEN <<>>
  ELSE LET j == EmphasisMatchEnd(s, i)
       IN IF j = 0 THEN <<s[i]>> \o EmphasisReplaceAll(s, i + 1)
          ELSE <<"*">> \o SubSeq(s, i + 1, j - 1) \o <<"*">>
               \o EmphasisReplaceAll(s, j + 1)

(***************************************************************************)
(* package config                                                          *)
(***************************************************************************)

DefaultLineWidth == 80

DefaultMaxBlankLines == 2

\* config.Default()
Default ==
  [LineWidth |-> DefaultLineWidth,
   Heading |-> [Style |-> "atx", NormalizeLevels |-> TRUE],
   List |-> [BulletStyle |-> <<"-">>, NumberStyle |-> <<".">>,
             ConsistentIndentation |-> TRUE],
   Code |-> [FenceStyle |-> <<Backtick, Backtick, Backtick>>,
            LanguageDetection |-> TRUE],
   Whitespace |-> [MaxBlankLines |-> DefaultMaxBlankLines,
                   TrimTrailingSpaces |-> TRUE,
                   EnsureFinalNewline |-> TRUE]]

(***************************************************************************)
(* package parser: the tree                                                *)
(***************************************************************************)

Document(children) == [type |-> "Document", Children |-> children]

Heading(level, text, style) ==
  [type |-> "Heading", Level |-> level, Text |-> text, Style |-> style]

Paragraph(text) == [type |-> "Paragraph", Text |-> text]

List(ordered, items, marker) ==
  [type |-> "List", Ordered |-> ordered, Items |-> items, Marker |-> marker]

ListItem(text, marker, children) ==
  [type |-> "ListItem", Text |-> text, Marker |-> marker, Children |-> children]

CodeBlock(language, content, fenced, fence) ==
  [type |-> "CodeBlock", Language |-> language, Content |-> content,
   Fenced |-> fenced, Fence |-> fence]

Text(content) == [type |-> "Text", Content |-> content]

\* NewWalker: the root followed by its direct children, nothing deeper
WalkerNodes(d) == <<d>> \o d.Children

(***************************************************************************)
(* package formatter: the rules                                            *)
(***************************************************************************)

AtxHeadingStyle == "atx"

SetextHeadingStyle == "setext"

MinHeadingLevel == 1

MaxHeadingLevel == 6

SetextMaxLevel == 2

\* HeadingFormatter.Format without the lower clamp
HeadingFormatterFormatNoFloor(heading, c) ==
  LET style == IF c.Heading.Style = AtxHeadingStyle THEN AtxHeadingStyle
               ELSE IF c.Heading.Style = SetextHeadingStyle
                    THEN (IF heading.Level <= SetextMaxLevel
                          THEN SetextHeadingStyle ELSE AtxHeadingStyle)
                    ELSE heading.Style
      level == IF c.Heading.NormalizeLevels /\ heading.Level > MaxHeadingLevel
               THEN MaxHeadingLevel ELSE heading.Level
  IN [heading EXCEPT !.Style = style, !.Level = level,
                     !.Text = TrimSpace(heading.Text)]

\* HeadingFormatter.Format
HeadingFormatterFormat(heading, c) ==
  LET style == IF c.Heading.Style = AtxHeadingStyle THEN AtxHeadingStyle
               ELSE IF c.Heading.Style = SetextHeadingStyle
                    THEN (IF heading.Level <= SetextMaxLevel
                          THEN SetextHeadingStyle ELSE AtxHeadingStyle)
                    ELSE heading.Style
      capped == IF heading.Level > MaxHeadingLevel
                THEN MaxHeadingLevel ELSE heading.Level
      level == IF c.Heading.NormalizeLevels
               THEN (IF capped < MinHeadingLevel THEN MinHeadingLevel ELSE capped)
               ELSE heading.Level
  IN [heading EXCEPT !.Style = style, !.Level = level,
                     !.Text = TrimSpace(heading.Text)]

RECURSIVE ParagraphWrapLoop(_, _, _, _)
\* the loop of ParagraphFormatter.wrapText over the remaining words
ParagraphWrapLoop(words, width, currentLine, lines) ==
  IF words = <<>> THEN lines
  ELSE LET word == Head(words)
           brk == Len(currentLine) > 0
                  /\ Len(currentLine) + 1 + Len(word) > width
           lines1 == IF brk THEN Append(lines, currentLine) ELSE lines
           cur1 == IF brk THEN <<>> ELSE currentLine
           cur2 == (IF Len(cur1) > 0 THEN cur1 \o <<" ">> ELSE cur1) \o word
       IN IF Len(words) = 1 THEN Append(lines1, cur2)
          ELSE ParagraphWrapLoop(Tail(words), width, cur2, lines1)

\* ParagraphFormatter.wrapText: splits on whitespace only, links included
ParagraphWrapText(text, width) ==
  IF width <= 0 THEN text
  ELSE IF Fields(text) = <<>> THEN text
  ELSE Join(ParagraphWrapLoop(Fields(text), width, <<>>, <<>>), <<"\n">>)

\* normalizeWhitespace
normalizeWhitespace(text) ==
  LET lines == Split(text, "\n")
  IN Join([i \in 1..Len(lines) |-> Join(Fields(lines[i]), <<" ">>)], <<"\n">>)

\* ParagraphFormatter.Format
ParagraphFormatterFormat(paragraph, c) ==
  LET wrapped == IF c.LineWidth > 0
                 THEN ParagraphWrapText(paragraph.Text, c.LineWidth)
                 ELSE paragraph.Text
  IN [paragraph EXCEPT !.Text = normalizeWhitespace(TrimSpace(wrapped))]

\* formatUnorderedList without the loop over the items
formatUnorderedListOnlyList(list, c) ==
  [list EXCEPT !.Marker = c.List.BulletStyle]

\* ListFormatter.formatUnorderedList
formatUnorderedList(list, c) ==
  [list EXCEPT !.Marker = c.List.BulletStyle,
               !.Items = [i \in 1..Len(list.Items) |->
                            [list.Items[i] EXCEPT !.Marker = c.List.BulletStyle]]]

\* ListFormatter.formatOrderedList
formatOrderedList(list, c) ==
  [list EXCEPT !.Items =
     [i \in 1..Len(list.Items) |->
        [list.Items[i] EXCEPT !.Marker =
           IF c.List.NumberStyle = <<")">> THEN Digits(i) \o <<")">>
           ELSE Digits(i) \o <<".">>]]]

RECURSIVE ListFormatterFormat(_, _)

\* processNestedLists without the recursive call
processNestedListsSkip(item, c) == item

\* ListFormatter.processNestedLists
processNestedLists(item, c) ==
  [item EXCEPT !.Children =
     [k \in 1..Len(item.Children) |->
        IF item.Children[k].type = "List"
        THEN ListFormatterFormat(item.Children[k], c)
        ELSE item.Children[k]]]

\* processListItems rebuilding the items without their children
processListItemsFlatten(list, c) ==
  [list EXCEPT !.Items =
     [i \in 1..Len(list.Items) |->
        [list.Items[i] EXCEPT
           !.Text = normalizeWhitespace(TrimSpace(list.Items[i].Text)),
           !.Children = <<>>]]]

\* ListFormatter.processListItems
processListItems(list, c) ==
  [list EXCEPT !.Items =
     [i \in 1..Len(list.Items) |->
        LET item == list.Items[i]
            cleaned == IF c.List.ConsistentIndentation
                       THEN [item EXCEPT !.Text =
                               normalizeWhitespace(TrimSpace(item.Text))]
                       ELSE item
        IN processNestedLists(cleaned, c)]]

\* ListFormatter.formatList
formatList(list, c) ==
  processListItems(IF ~list.Ordered THEN formatUnorderedList(list, c)
                   ELSE formatOrderedList(list, c), c)

\* ListFormatter.formatListItem
formatListItem(item, c) ==
  processNestedLists(
    [item EXCEPT !.Text = normalizeWhitespace(TrimSpace(item.Text))], c)

\* ListFormatter.Format
ListFormatterFormat(node, c) ==
  IF node.type = "List" THEN formatList(node, c)
  ELSE IF node.type = "ListItem" THEN formatListItem(node, c)
  ELSE node

\* CodeBlockFormatter.Format: the fence is assigned whatever the Fenced flag
CodeBlockFormatterFormat(code, c) ==
  IF c.Code.FenceStyle = <<Backtick, Backtick, Backtick>>
  THEN [code EXCEPT !.Fence = <<Backtick, Backtick, Backtick>>]
  ELSE IF c.Code.FenceStyle = <<"~", "~", "~">>
  THEN [code EXCEPT !.Fence = <<"~", "~", "~">>]
  ELSE code

\* InlineFormatter.normalizeInlineCode
normalizeInlineCode(text) == PaddedReplaceAll(text, 1, Backtick, Backtick)

\* InlineFormatter.normalizeEmphasis
normalizeEmphasis(text) == EmphasisReplaceAll(text, 1)

\* InlineFormatter.normalizeLinks
normalizeLinks(text) == PaddedReplaceAll(text, 1, "[", "]")

\* InlineFormatter.normalizeInlineElements
normalizeInlineElements(text) ==
  normalizeLinks(normalizeEmphasis(normalizeInlineCode(text)))

\* InlineFormatter.Format
InlineFormatterFormat(node, c) ==
  IF node.type = "Text"
  THEN [node EXCEPT !.Content = normalizeInlineElements(node.Content)]
  ELSE IF node.type = "Paragraph"
  THEN [node EXCEPT !.Text = normalizeInlineElements(node.Text)]
  ELSE node

\* WhitespaceFormatter.trimTrailingSpaces
trimTrailingSpaces(text) ==
  LET lines == Split(text, "\n")
  IN Join([i \in 1..Len(lines) |-> TrimRight(lines[i], {" ", "\t"})], <<"\n">>)

\* WhitespaceFormatter.Format
WhitespaceFormatterFormat(node, c) ==
  IF ~c.Whitespace.TrimTrailingSpaces THEN node
  ELSE IF node.type = "Paragraph"
  THEN [node EXCEPT !.Text = trimTrailingSpaces(node.Text)]
  ELSE IF node.type = "Heading"
  THEN [node EXCEPT !.Text = TrimSpace(node.Text)]
  ELSE IF node.type = "CodeBlock"
  THEN [node EXCEPT !.Content = trimTrailingSpaces(node.Content)]
  ELSE IF node.type = "Text"
  THEN [node EXCEPT !.Content = trimTrailingSpaces(node.Content)]
  ELSE node

(***************************************************************************)
(* package formatter: the engine                                           *)
(***************************************************************************)

\* the formatter values RegisterDefaults registers: &HeadingFormatter{} and
\* the like are built without their constructors, so BaseFormatter.priority
\* is the zero value
DefaultFormatters ==
  <<[kind |-> "heading", priority |-> 0],
    [kind |-> "paragraph", priority |-> 0],
    [kind |-> "list", priority |-> 0],
    [kind |-> "code", priority |-> 0],
    [kind |-> "inline", priority |-> 0],
    [kind |-> "whitespace", priority |-> 0]>>

RECURSIVE RegisterSortUnstable(_, _)
\* a sort that also moves the new element past rules of equal priority
RegisterSortUnstable(fs, i) ==
  IF i <= 1 THEN fs
  ELSE IF fs[i].priority >= fs[i - 1].priority
       THEN RegisterSortUnstable(
              [fs EXCEPT ![i] = fs[i - 1], ![i - 1] = fs[i]], i - 1)
       ELSE fs

RECURSIVE RegisterSort(_, _)
\* the loop of Engine.Register: the new last element moves towards the
\* front while its priority is strictly higher than its predecessor's
RegisterSort(fs, i) ==
  IF i <= 1 THEN fs
  ELSE IF fs[i].priority > fs[i - 1].priority
       THEN RegisterSort([fs EXCEPT ![i] = fs[i - 1], ![i - 1] = fs[i]], i - 1)
       ELSE fs

\* Engine.Register
Register(fs, f) == RegisterSort(Append(fs, f), Len(fs) + 1)

RECURSIVE RegisterAll(_, _)
RegisterAll(fs, new) ==
  IF new = <<>> THEN fs ELSE RegisterAll(Register(fs, Head(new)), Tail(new))

\* Engine.RegisterDefaults
RegisterDefaults(fs) == RegisterAll(fs, DefaultFormatters)

\* formatter.New
New == RegisterDefaults(<<>>)

\* the declared priorities of the built-in rules
HeadingFormatterPriority == 100

ParagraphFormatterPriority == 90

ListFormatterPriority == 80

CodeFormatterPriority == 70

WhitespaceFormatterPriority == 10

InlineFormatterPriority == 60

\* NodeFormatter.CanFormat of each rule; "userNoop" and "userFail" are rules
\* a caller of Register supplies through the NodeFormatter interface
CanFormat(kind, nodeType) ==
  CASE kind = "heading" -> nodeType = "Heading"
    [] kind = "paragraph" -> nodeType = "Paragraph"
    [] kind = "list" -> nodeType \in {"List", "ListItem"}
    [] kind = "code" -> nodeType = "CodeBlock"
    [] kind = "inline" -> nodeType \in {"Text", "Paragraph"}
    [] kind = "whitespace" -> TRUE
    [] kind = "userNoop" -> TRUE
    [] kind = "userFail" -> nodeType = "Paragraph"
    [] OTHER -> FALSE

\* NodeFormatter.Format of each rule: the node it leaves
FormatNode(kind, node, c) ==
  CASE kind = "heading" -> HeadingFormatterFormat(node, c)
    [] kind = "paragraph" -> ParagraphFormatterFormat(node, c)
    [] kind = "list" -> ListFormatterFormat(node, c)
    [] kind = "code" -> CodeBlockFormatterFormat(node, c)
    [] kind = "inline" -> InlineFormatterFormat(node, c)
    [] kind = "whitespace" -> WhitespaceFormatterFormat(node, c)
    [] OTHER -> node

\* NodeFormatter.Format of each rule: whether it returns an error; every
\* built-in rule returns nil on every path
FormatFails(kind, node) == kind = "userFail"

RECURSIVE FormatLoopBroadcast(_, _, _, _)
\* a dispatch without the break: every accepting formatter is applied
FormatLoopBroadcast(fs, i, node, c) ==
  IF i > Len(fs) THEN [node |-> node, invoked |-> <<>>, err |-> FALSE]
  ELSE IF CanFormat(fs[i].kind, node.type)
       THEN IF FormatFails(fs[i].kind, node)
            THEN [node |-> node, invoked |-> <<i>>, err |-> TRUE]
            ELSE LET rest == FormatLoopBroadcast(
                               fs, i + 1, FormatNode(fs[i].kind, node, c), c)
                 IN [rest EXCEPT !.invoked = <<i>> \o rest.invoked]
       ELSE FormatLoopBroadcast(fs, i + 1, node, c)

RECURSIVE FormatLoop(_, _, _, _)
\* the inner loop of Engine.Format from formatter i on: the first formatter
\* that accepts the node's type is invoked, its error returned, then break
FormatLoop(fs, i, node, c) ==
  IF i > Len(fs) THEN [node |-> node, invoked |-> <<>>, err |-> FALSE]
  ELSE IF CanFormat(fs[i].kind, node.type)
       THEN IF FormatFails(fs[i].kind, node)
            THEN [node |-> node, invoked |-> <<i>>, err |-> TRUE]
            ELSE [node |-> FormatNode(fs[i].kind, node, c),
                  invoked |-> <<i>>, err |-> FALSE]
       ELSE FormatLoop(fs, i + 1, node, c)

\* the node the inner loop of Engine.Format leaves
ApplyFirst(fs, node, c) == FormatLoop(fs, 1, node, c).node

RECURSIVE WalkLoopContinue(_, _, _, _)
\* a walk that goes on after a failure
WalkLoopContinue(fs, nodes, k, c) ==
  IF k > Len(nodes)
  THEN [nodes |-> nodes, invoked |-> [j \in 1..Len(nodes) |-> <<>>],
        err |-> FALSE]
  ELSE LET r == FormatLoop(fs, 1, nodes[k], c)
           rest == WalkLoopContinue(fs, [nodes EXCEPT ![k] = r.node], k + 1, c)
       IN [rest EXCEPT !.invoked[k] = r.invoked, !.err = r.err \/ rest.err]

RECURSIVE WalkLoop(_, _, _, _)
\* the outer loop of Engine.Format from the k-th node of the walker on: a
\* failure returns at once, the nodes behind it are not visited
WalkLoop(fs, nodes, k, c) ==
  IF k > Len(nodes)
  THEN [nodes |-> nodes, invoked |-> [j \in 1..Len(nodes) |-> <<>>],
        err |-> FALSE]
  ELSE LET r == FormatLoop(fs, 1, nodes[k], c)
       IN IF r.err
          THEN [nodes |-> [nodes EXCEPT ![k] = r.node],
                invoked |-> [j \in 1..Len(nodes) |->
                               IF j = k THEN r.invoked ELSE <<>>],
                err |-> TRUE]
          ELSE LET rest == WalkLoop(fs, [nodes EXCEPT ![k] = r.node], k + 1, c)
               IN [rest EXCEPT !.invoked[k] = r.invoked]

\* Engine.Format: the tree the walk leaves, the formatters it invoked on
\* each node of the walker and whether it returned an error
EngineWalk(fs, d, c) ==
  LET r == WalkLoop(fs, WalkerNodes(d), 1, c)
  IN [doc |-> [Head(r.nodes) EXCEPT !.Children = Tail(r.nodes)],
      invoked |-> r.invoked, err |-> r.err]

\* Engine.Format: the walker visits the root and its direct children
EngineFormat(fs, d, c) == EngineWalk(fs, d, c).doc

(***************************************************************************)
(* package renderer                                                        *)
(***************************************************************************)

SecondHeadingLevel == 2

\* MarkdownRenderer.renderHeading (strings.Repeat panics on a negative count)
renderHeading(heading) ==
  IF heading.Style = "setext" /\ heading.Level <= SecondHeadingLevel
  THEN LET marker == IF heading.Level = SecondHeadingLevel THEN "-" ELSE "="
           trimmed == Len(TrimSpace(heading.Text))
           textLength == IF trimmed = 0 THEN 3 ELSE trimmed
       IN heading.Text \o <<"\n">> \o Repeat(marker, textLength) \o <<"\n", "\n">>
  ELSE Repeat("#", heading.Level) \o <<" ">> \o heading.Text \o <<"\n", "\n">>

\* MarkdownRenderer.containsMarkdownLinks
containsMarkdownLinks(text) == \E i \in 1..Len(text) : LinkMatchEnd(text, i) # 0

RECURSIVE FixLastBreak(_, _)
\* first ReplaceAllStringFunc of fixBrokenLinks, pattern
\* `\[([^\]]*)\n([^\]]*)\]\(([^)]*)\)`: the greedy first group leaves the
\* label's last line break to the \n of the pattern
FixLastBreak(s, i) ==
  IF i > Len(s) THEN <<>>
  ELSE LET k == LinkMatchEnd(s, i)
           j == IndexFrom(s, "]", i + 1)
           n == IF k = 0 THEN 0 ELSE LastIndexIn(s, "\n", i + 1, j - 1)
       IN IF n = 0 THEN <<s[i]>> \o FixLastBreak(s, i + 1)
          ELSE SubSeq(s, i, n - 1) \o <<" ">> \o SubSeq(s, n + 1, k)
               \o FixLastBreak(s, k + 1)

RECURSIVE FixAllBreaks(_, _)
\* second ReplaceAllStringFunc of fixBrokenLinks, pattern
\* `\[([^\]]*(?:\n[^\]]*)*)\]\(([^)]*)\)`: every break of the label
FixAllBreaks(s, i) ==
  IF i > Len(s) THEN <<>>
  ELSE LET k == LinkMatchEnd(s, i)
           j == IndexFrom(s, "]", i + 1)
       IN IF k = 0 THEN <<s[i]>> \o FixAllBreaks(s, i + 1)
          ELSE [p \in 1..(j - i) |->
                  IF s[i + p - 1] = "\n" THEN " " ELSE s[i + p - 1]]
               \o SubSeq(s, j, k) \o FixAllBreaks(s, k + 1)

\* MarkdownRenderer.fixBrokenLinks
fixBrokenLinks(text) == FixAllBreaks(FixLastBreak(text, 1), 1)

RECURSIVE TokenizeFrom(_, _, _)
\* the loop of tokenizeWithLinks over the non-overlapping link matches
TokenizeFrom(s, i, lastEnd) ==
  IF i > Len(s) THEN Fields(SubSeq(s, lastEnd, Len(s)))
  ELSE LET k == LinkMatchEnd(s, i)
       IN IF k = 0 THEN TokenizeFrom(s, i + 1, lastEnd)
          ELSE Fields(SubSeq(s, lastEnd, i - 1)) \o <<SubSeq(s, i, k)>>
               \o TokenizeFrom(s, k + 1, k + 1)

\* MarkdownRenderer.tokenizeWithLinks
tokenizeWithLinks(text) == TokenizeFrom(text, 1, 1)

RECURSIVE RendererWrapLoop(_, _, _, _)
\* the loop of MarkdownRenderer.wrapText over the remaining tokens
RendererWrapLoop(tokens, width, currentLine, lines) ==
  IF tokens = <<>> THEN lines
  ELSE LET token == Head(tokens)
           brk == Len(currentLine) > 0
                  /\ Len(currentLine) + 1 + Len(token) > width
           lines1 == IF brk THEN Append(lines, currentLine) ELSE lines
           cur1 == IF brk THEN <<>> ELSE currentLine
           cur2 == (IF Len(cur1) > 0 THEN cur1 \o <<" ">> ELSE cur1) \o token
       IN IF Len(tokens) = 1 THEN Append(lines1, cur2)
          ELSE RendererWrapLoop(Tail(tokens), width, cur2, lines1)

\* wrapText with the limit off by one
RendererWrapTextWide(text, width) ==
  IF width <= 0 THEN text
  ELSE IF tokenizeWithLinks(text) = <<>> THEN text
  ELSE Join(RendererWrapLoop(tokenizeWithLinks(text), width + 1, <<>>, <<>>),
            <<"\n">>)

\* MarkdownRenderer.wrapText
RendererWrapText(text, width) ==
  IF width <= 0 THEN text
  ELSE IF tokenizeWithLinks(text) = <<>> THEN text
  ELSE Join(RendererWrapLoop(tokenizeWithLinks(text), width, <<>>, <<>>),
            <<"\n">>)

\* MarkdownRenderer.renderParagraph
renderParagraph(para, c) ==
  LET fixed == fixBrokenLinks(para.Text)
      content == IF c.LineWidth > 0 /\ ~containsMarkdownLinks(fixed)
                 THEN RendererWrapText(fixed, c.LineWidth) ELSE fixed
  IN content \o <<"\n", "\n">>

\* MarkdownRenderer.renderCodeBlock
renderCodeBlock(code) ==
  IF code.Fenced
  THEN code.Fence \o code.Language \o <<"\n">> \o code.Content
       \o (IF HasSuffixNL(code.Content) THEN <<>> ELSE <<"\n">>)
       \o code.Fence \o <<"\n", "\n">>
  ELSE LET lines == Split(code.Content, "\n")
       IN Flatten([i \in 1..Len(lines) |->
                     <<" ", " ", " ", " ">> \o lines[i] \o <<"\n">>])
          \o <<"\n">>

\* MarkdownRenderer.renderText
renderText(text, c) ==
  IF c.Whitespace.TrimTrailingSpaces
  THEN LET lines == Split(text.Content, "\n")
       IN Join([i \in 1..Len(lines) |-> TrimRight(lines[i], {" ", "\t"})],
               <<"\n">>)
  ELSE text.Content

RECURSIVE renderNode(_, _, _)

\* MarkdownRenderer.renderListItem
renderListItem(item, depth, c) ==
  LET indent == IF depth > 1 THEN Repeat(" ", 2 * (depth - 1)) ELSE <<>>
      marker == IF item.Marker = <<>> THEN c.List.BulletStyle ELSE item.Marker
  IN indent \o marker \o <<" ">> \o item.Text \o <<"\n">>
     \o Flatten([k \in 1..Len(item.Children) |->
                   renderNode(item.Children[k], depth, c)])

\* MarkdownRenderer.renderList
renderList(list, depth, c) ==
  Flatten([i \in 1..Len(list.Items) |->
             renderListItem(list.Items[i], depth + 1, c)]) \o <<"\n">>

\* MarkdownRenderer.renderNode: any other node type is skipped without error
renderNode(node, depth, c) ==
  CASE node.type = "Heading" -> renderHeading(node)
    [] node.type = "Paragraph" -> renderParagraph(node, c)
    [] node.type = "List" -> renderList(node, depth, c)
    [] node.type = "ListItem" -> renderListItem(node, depth, c)
    [] node.type = "CodeBlock" -> renderCodeBlock(node)
    [] node.type = "Text" -> renderText(node, c)
    [] OTHER -> <<>>

\* MarkdownRenderer.renderDocument
renderDocument(d, depth, c) ==
  Flatten([i \in 1..Len(d.Children) |-> renderNode(d.Children[i], depth, c)])

RECURSIVE BlankLinesLoop(_, _, _, _)
\* the loop of normalizeBlankLines
BlankLinesLoop(lines, maxBlankLines, consecutiveEmpty, result) ==
  IF lines = <<>> THEN result
  ELSE IF TrimSpace(Head(lines)) = <<>>
       THEN BlankLinesLoop(Tail(lines), maxBlankLines, consecutiveEmpty + 1,
                           IF consecutiveEmpty + 1 <= maxBlankLines
                           THEN Append(result, Head(lines)) ELSE result)
       ELSE BlankLinesLoop(Tail(lines), maxBlankLines, 0,
                           Append(result, Head(lines)))

\* MarkdownRenderer.normalizeBlankLines
normalizeBlankLines(text, maxBlankLines) ==
  IF maxBlankLines < 0 THEN text
  ELSE Join(BlankLinesLoop(Split(text, "\n"), maxBlankLines, 0, <<>>), <<"\n">>)

\* MarkdownRenderer.Render: the buffer is reset, the document serialised,
\* blank lines normalised and the final newline ensured
Render(d, c) ==
  LET result == normalizeBlankLines(renderDocument(d, 0, c),
                                    c.Whitespace.MaxBlankLines)
  IN IF c.Whitespace.EnsureFinalNewline /\ ~HasSuffixNL(result)
     THEN result \o <<"\n">> ELSE result

RECURSIVE renderNodePanics(_)
\* strings.Repeat panics on a negative count: the case an ATX heading with
\* a negative level reaches in renderHeading
renderNodePanics(node) ==
  CASE node.type = "Heading" ->
         /\ ~(node.Style = "setext" /\ node.Level <= SecondHeadingLevel)
         /\ node.Level < 0
    [] node.type = "List" ->
         \E i \in 1..Len(node.Items) : renderNodePanics(node.Items[i])
    [] node.type = "ListItem" ->
         \E i \in 1..Len(node.Children) : renderNodePanics(node.Children[i])
    [] OTHER -> FALSE

\* whether Render panics on the document
RenderPanics(d) ==
  \E i \in 1..Len(d.Children) : renderNodePanics(d.Children[i])

RECURSIVE renderNodeErr(_)
\* the error renderNode returns: renderHeading, renderParagraph,
\* renderCodeBlock and renderText return nil, renderList and renderListItem
\* the error of their children, and a node of any other type is skipped
\* with nil
renderNodeErr(node) ==
  CASE node.type = "List" ->
         \E i \in 1..Len(node.Items) : renderNodeErr(node.Items[i])
    [] node.type = "ListItem" ->
         \E i \in 1..Len(node.Children) : renderNodeErr(node.Children[i])
    [] OTHER -> FALSE

\* the error of renderDocument, which Render returns with ""
RenderErr(d) ==
  \E i \in 1..Len(d.Children) : renderNodeErr(d.Children[i])

(***************************************************************************)
(* Bounds and input families                                               *)
(***************************************************************************)

MaxPasses == 2

MaxPieces == 4

MaxWidth == 4

MaxItems == 3

MaxListDepth == 2

\* input heading levels range from MinHeadingLevel - LevelsBelow to
\* MaxHeadingLevel + LevelsAbove
LevelsBelow == 2

LevelsAbove == 2

MaxBlocks == 2

MaxBlank == 2

\* the Register calls a caller makes after formatter.New()
MaxRegister == 2

\* the invocations of formatMarkdownContent that run at the same time
NumCalls == 2

\* the pieces a paragraph with links is put together from
MaxLinkPieces == 4

\* the headings of a document
MaxHeadings == 3

RECURSIVE TextsUpTo(_, _)
\* the texts made of at most n pieces
TextsUpTo(pieces, n) ==
  IF n = 0 THEN {<<>>}
  ELSE LET shorter == TextsUpTo(pieces, n - 1)
       IN shorter \cup {t \o q : t \in shorter, q \in pieces}

ParaPieces ==
  {<<"a">>, <<"b", "b", "b">>, <<" ">>, <<"\n">>,
   <<"[", "a", " ", "b", "]", "(", "u", ")">>}

Widths == (0..MaxWidth) \cup {DefaultLineWidth}

ParaDocs == {Document(<<Paragraph(t)>>) : t \in TextsUpTo(ParaPieces, MaxPieces)}

ParaConfigs == {[Default EXCEPT !.LineWidth = w] : w \in Widths}

HeadingTexts ==
  {<<>>, <<"H", "i">>, <<" ", "H", "i", " ">>, <<"D", "e", "e", "p">>,
   <<"#", "x">>}

HeadingDocs ==
  {Document(<<Heading(l, t, st)>>) :
     l \in (MinHeadingLevel - LevelsBelow)..(MaxHeadingLevel + LevelsAbove),
     t \in HeadingTexts, st \in {"atx", "setext"}}

HeadingConfigs ==
  {[Default EXCEPT !.Heading = [Style |-> st, NormalizeLevels |-> nl]] :
     st \in {"atx", "setext"}, nl \in BOOLEAN}

\* markers an item can carry before formatting
InputMarkers == {<<"*">>, <<>>, <<"7", ".">>}

ItemTexts == <<<<"a">>, <<" ", "b", " ", " ", "c">>, <<"d">>>>

\* a list of n items that carry marker m, the last one holding the lists kids
MkList(ordered, n, m, kids) ==
  List(ordered,
       [i \in 1..n |-> ListItem(ItemTexts[((i - 1) % 3) + 1], m,
                                IF i = n THEN kids ELSE <<>>)],
       IF ordered THEN <<".">> ELSE <<"-">>)

RECURSIVE ListsOfDepth(_)
ListsOfDepth(d) ==
  IF d = 0 THEN {}
  ELSE LET inner == ListsOfDepth(d - 1)
       IN {MkList(o, n, m, kids) :
             o \in BOOLEAN, n \in 1..MaxItems, m \in InputMarkers,
             kids \in {<<>>} \cup {<<l>> : l \in inner}}

SiblingList == MkList(TRUE, 2, <<"7", ".">>, <<>>)

ListDocs ==
  {Document(<<l>>) : l \in ListsOfDepth(MaxListDepth)}
  \cup {Document(<<l, SiblingList>>) : l \in ListsOfDepth(MaxListDepth)}

ListConfigs ==
  {[Default EXCEPT !.List = [BulletStyle |-> b, NumberStyle |-> n,
                             ConsistentIndentation |-> TRUE]] :
     b \in {<<"-">>, <<"+">>}, n \in {<<".">>, <<")">>}}
  \cup {[Default EXCEPT !.List = [BulletStyle |-> <<"*">>,
                                  NumberStyle |-> <<".">>,
                                  ConsistentIndentation |-> FALSE]]}

\* the scenario document "#### Deep\n\nfoo   bar" as the parser delivers it
DeepHeading == Heading(4, <<"D", "e", "e", "p">>, "atx")

FooBar == Paragraph(<<"f", "o", "o", " ", " ", " ", "b", "a", "r">>)

Blocks ==
  {DeepHeading, FooBar,
   Paragraph(<<>>),
   Text(<<Backtick, " ", "a", " ", Backtick, " ", "b", " ", Backtick>>),
   Text(<<"x", " ", "\n", "\n", "\n", "\n", "y">>),
   CodeBlock(<<"g", "o">>, <<"x", "\n", "\n", "\n", "\n", "y", "\n">>, TRUE,
             <<"~", "~", "~">>),
   CodeBlock(<<>>, <<"x", " ", "\n", "y">>, FALSE,
             <<Backtick, Backtick, Backtick>>),
   MkList(FALSE, 2, <<"*">>, <<>>),
   Document(<<FooBar>>)}

RECURSIVE BlockSeqs(_)
BlockSeqs(n) ==
  IF n = 0 THEN {<<>>}
  ELSE LET shorter == BlockSeqs(n - 1)
       IN shorter \cup {Append(bs, b) : bs \in shorter, b \in Blocks}

Docs == {Document(bs) : bs \in BlockSeqs(MaxBlocks)}

Configs ==
  {[Default EXCEPT !.Whitespace = [MaxBlankLines |-> k,
                                   TrimTrailingSpaces |-> t,
                                   EnsureFinalNewline |-> e]] :
     k \in (-1)..MaxBlank, t \in BOOLEAN, e \in BOOLEAN}

\* the rules a caller registers: one that accepts every node and does
\* nothing, one that accepts paragraphs and returns an error
UserKinds == {"userNoop", "userFail"}

UserPriorities == {0, 50, 100}

TallHeading == Heading(7, <<"D">>, "atx")

EngineDocs ==
  {Document(<<TallHeading, FooBar, FooBar>>),
   Document(<<FooBar, DeepHeading>>),
   Document(<<DeepHeading,
              Text(<<Backtick, " ", "a", " ", Backtick>>)>>)}

BacktickFence == <<Backtick, Backtick, Backtick>>

TildeFence == <<"~", "~", "~">>

\* the code blocks convertCodeBlock delivers: an indented block carries the
\* backtick fence, a fenced block the fence of its source
CodeBlocks ==
  LET languages == {<<>>, <<"g", "o">>}
      contents == {<<>>, <<"x", " ", "\n", "y">>, <<" ", " ", "x", "\n">>}
  IN {CodeBlock(l, t, TRUE, fence) :
        l \in languages, t \in contents, fence \in {BacktickFence, TildeFence}}
     \cup {CodeBlock(l, t, FALSE, BacktickFence) :
             l \in languages, t \in contents}

CodeDocs == {Document(<<b>>) : b \in CodeBlocks}

\* the fence styles Validate accepts, with and without language detection
CodeConfigs ==
  {[Default EXCEPT !.Code = [FenceStyle |-> fs, LanguageDetection |-> ld],
                   !.Whitespace.TrimTrailingSpaces = t] :
     fs \in {BacktickFence, TildeFence}, ld \in BOOLEAN, t \in BOOLEAN}

PureDocs ==
  {Document(<<DeepHeading, FooBar>>),
   Document(<<Text(<<"x", " ", "\n", "y">>), MkList(FALSE, 1, <<>>, <<>>)>>),
   Document(<<FooBar>>)}

PureConfigs ==
  {Default,
   [Default EXCEPT !.Whitespace.TrimTrailingSpaces = FALSE,
                   !.List.BulletStyle = <<"+">>]}

\* pieces of paragraphs with links: a link whose destination is not closed,
\* the start of a label with a line break, one more line of a label, the
\* end of a link, and plain text
LinkPieces ==
  {<<"[", "a", "]", "(", "u", " ">>,
   <<"[", "a", "\n", "b">>,
   <<"\n", "c">>,
   <<"]", "(", "u", ")">>,
   <<" ", "x">>}

LinkDocs ==
  {Document(<<Paragraph(t)>>) : t \in TextsUpTo(LinkPieces, MaxLinkPieces)}

\* without reflow (the line breaks of the input reach the renderer), with
\* the narrowest and with the default width
LinkConfigs == {[Default EXCEPT !.LineWidth = w] : w \in {0, 1, DefaultLineWidth}}

RECURSIVE HeadingSeqs(_)
\* the sequences of up to n ATX headings of the levels 1..6
HeadingSeqs(n) ==
  IF n = 0 THEN {<<>>}
  ELSE LET shorter == HeadingSeqs(n - 1)
       IN shorter
          \cup {Append(hs, Heading(l, <<"h">>, "atx")) :
                  hs \in shorter, l \in MinHeadingLevel..MaxHeadingLevel}

JumpDocs == {Document(hs) : hs \in HeadingSeqs(MaxHeadings)}

JumpConfigs ==
  {[Default EXCEPT !.Heading.NormalizeLevels = n] : n \in BOOLEAN}

(***************************************************************************)
(* The pipeline of formatMarkdownContent as a state machine                *)
(***************************************************************************)

\* the command line tool around the core has not run
ToolIdle ==
  /\ validateErr = <<>>
  /\ find = <<>>
  /\ batch = <<>>
  /\ ps = <<>>

\* the state after p.Parse, formatter.New() and engine.RegisterDefaults()
InitWith(docs, configs) ==
  /\ formatters = RegisterDefaults(New)
  /\ registered = DefaultFormatters \o DefaultFormatters
  /\ doc \in docs
  /\ cfg \in configs
  /\ pc = "parsed"
  /\ out = <<>>
  /\ prevDoc = doc
  /\ prevOut = <<>>
  /\ pass = 0
  /\ invoked = <<>>
  /\ formatErr = FALSE
  /\ calls = <<>>
  /\ renderers = <<>>
  /\ ToolIdle

Init == InitWith(Docs, Configs)

InitPara == InitWith(ParaDocs, ParaConfigs)

InitHeading == InitWith(HeadingDocs, HeadingConfigs)

InitList == InitWith(ListDocs, ListConfigs)

InitCode == InitWith(CodeDocs, CodeConfigs)

InitLink == InitWith(LinkDocs, LinkConfigs)

InitJump == InitWith(JumpDocs, JumpConfigs)

\* a pass that ignores the error of engine.Format
AfterFormatIgnoringError(e) == "formatted"

\* formatMarkdownContent after engine.Format: an error returns at once
AfterFormat(e) == IF e THEN "failed" ELSE "formatted"

\* engine.Format(doc, cfg); after a render the walk can be run again on the
\* tree it left.  On an error formatMarkdownContent returns "" and the error
Format ==
  /\ pc = "parsed" \/ (pc = "rendered" /\ pass < MaxPasses)
  /\ LET r == EngineWalk(formatters, doc, cfg)
     IN /\ prevDoc' = doc
        /\ doc' = r.doc
        /\ invoked' = r.invoked
        /\ formatErr' = r.err
        /\ pc' = AfterFormat(r.err)
        /\ out' = IF pc' = "failed" THEN <<>> ELSE out
  /\ UNCHANGED <<formatters, registered, cfg, prevOut, pass, calls, renderers,
                 toolVars>>

\* mdRenderer.Render(doc, cfg)
RenderStep ==
  /\ pc = "formatted"
  /\ IF RenderPanics(doc)
     THEN /\ pc' = "panic"
          /\ UNCHANGED <<out, prevOut, pass>>
     ELSE IF RenderErr(doc)
     THEN /\ pc' = "renderfailed"
          /\ out' = <<>>
          /\ UNCHANGED <<prevOut, pass>>
     ELSE /\ pc' = "rendered"
          /\ prevOut' = out
          /\ out' = Render(doc, cfg)
          /\ pass' = pass + 1
  /\ UNCHANGED <<formatters, registered, doc, cfg, prevDoc, invoked, formatErr,
                 calls, renderers, toolVars>>

\* the state after p.Parse and formatter.New()
InitEngine ==
  /\ formatters = New
  /\ registered = DefaultFormatters
  /\ doc \in EngineDocs
  /\ cfg = Default
  /\ pc = "parsed"
  /\ out = <<>>
  /\ prevDoc = doc
  /\ prevOut = <<>>
  /\ pass = 0
  /\ invoked = <<>>
  /\ formatErr = FALSE
  /\ calls = <<>>
  /\ renderers = <<>>
  /\ ToolIdle

\* the rules of a list that a caller supplied
UserRules(fs) == SelectSeq(fs, LAMBDA f : f.kind \in UserKinds)

\* engine.Register(formatter) with a rule of the caller
RegisterStep ==
  /\ pc = "parsed"
  /\ Len(UserRules(registered)) < MaxRegister
  /\ \E k \in UserKinds, p \in UserPriorities :
       LET f == [kind |-> k, priority |-> p]
       IN /\ formatters' = Register(formatters, f)
          /\ registered' = Append(registered, f)
  /\ UNCHANGED <<doc, cfg, pc, out, prevDoc, prevOut, pass, invoked,
                 formatErr, calls, renderers, toolVars>>

\* engine.RegisterDefaults() on the engine formatter.New() returned
RegisterDefaultsStep ==
  /\ pc = "parsed"
  /\ Len(registered) - Len(UserRules(registered)) < 2 * Len(DefaultFormatters)
  /\ formatters' = RegisterDefaults(formatters)
  /\ registered' = registered \o DefaultFormatters
  /\ UNCHANGED <<doc, cfg, pc, out, prevDoc, prevOut, pass, invoked,
                 formatErr, calls, renderers, toolVars>>

\* one renderer with every invocation
SharedRenderer(i) == 1

\* mdRenderer := renderer.New(): every invocation has a renderer of its own
RendererOf(i) == i

\* several invocations of formatMarkdownContent, each after p.Parse
InitPure ==
  /\ calls \in [1..NumCalls ->
                  {[pc |-> "parsed", input |-> d, doc |-> d, cfg |-> c, k |-> 0,
                    out |-> <<>>, overlapped |-> FALSE] :
                     d \in PureDocs, c \in PureConfigs}]
  /\ renderers = [r \in 1..NumCalls |-> [output |-> <<>>, config |-> Default]]
  /\ formatters = <<>>
  /\ registered = <<>>
  /\ doc = Document(<<>>)
  /\ cfg = Default
  /\ pc = "calls"
  /\ out = <<>>
  /\ prevDoc = doc
  /\ prevOut = <<>>
  /\ pass = 0
  /\ invoked = <<>>
  /\ formatErr = FALSE
  /\ ToolIdle

\* formatter.New(), engine.RegisterDefaults() and engine.Format(doc, cfg) of
\* invocation i, on an engine of its own
CallFormat(i) ==
  /\ calls[i].pc = "parsed"
  /\ LET engine == RegisterDefaults(New)
         r == EngineWalk(engine, calls[i].doc, calls[i].cfg)
     IN calls' = [calls EXCEPT ![i].doc = r.doc, ![i].pc = AfterFormat(r.err)]
  /\ UNCHANGED <<formatters, registered, doc, cfg, pc, out, prevDoc, prevOut,
                 pass, invoked, formatErr, renderers,
                 toolVars>>

\* the start of Render in invocation i: r.output.Reset(); r.config = cfg
CallRenderReset(i) ==
  /\ calls[i].pc = "formatted"
  /\ renderers' = [renderers EXCEPT ![RendererOf(i)] =
                     [output |-> <<>>, config |-> calls[i].cfg]]
  /\ calls' = [calls EXCEPT ![i].pc = "rendering", ![i].k = 1]
  /\ UNCHANGED <<formatters, registered, doc, cfg, pc, out, prevDoc, prevOut,
                 pass, invoked, formatErr, toolVars>>

\* one iteration of renderDocument in invocation i: the next child is
\* written to the renderer's buffer under the renderer's configuration
CallRenderNode(i) ==
  /\ calls[i].pc = "rendering"
  /\ calls[i].k <= Len(calls[i].doc.Children)
  /\ LET r == renderers[RendererOf(i)]
     IN renderers' = [renderers EXCEPT ![RendererOf(i)].output =
                        r.output \o renderNode(calls[i].doc.Children[calls[i].k],
                                               0, r.config)]
  /\ calls' = [calls EXCEPT
                 ![i].k = calls[i].k + 1,
                 ![i].overlapped =
                    calls[i].overlapped
                    \/ \E j \in 1..NumCalls :
                         j # i /\ calls[j].pc = "rendering" /\ calls[j].k > 1]
  /\ UNCHANGED <<formatters, registered, doc, cfg, pc, out, prevDoc, prevOut,
                 pass, invoked, formatErr, toolVars>>

\* the end of Render in invocation i: r.output.String(), the blank lines
\* normalised and the final newline ensured
CallRenderFinish(i) ==
  /\ calls[i].pc = "rendering"
  /\ calls[i].k > Len(calls[i].doc.Children)
  /\ LET c == calls[i].cfg
         result == normalizeBlankLines(renderers[RendererOf(i)].output,
                                       c.Whitespace.MaxBlankLines)
     IN calls' = [calls EXCEPT
                    ![i].pc = "done",
                    ![i].out = IF c.Whitespace.EnsureFinalNewline
                                  /\ ~HasSuffixNL(result)
                               THEN result \o <<"\n">> ELSE result]
  /\ UNCHANGED <<formatters, registered, doc, cfg, pc, out, prevDoc, prevOut,
                 pass, invoked, formatErr, renderers,
                 toolVars>>

Next == Format \/ RenderStep

Spec == Init /\ [][Next]_vars

SpecPara == InitPara /\ [][Next]_vars

SpecHeading == InitHeading /\ [][Next]_vars

SpecList == InitList /\ [][Next]_vars

SpecCode == InitCode /\ [][Next]_vars

SpecLink == InitLink /\ [][Next]_vars

SpecJump == InitJump /\ [][Next]_vars

NextEngine == RegisterStep \/ RegisterDefaultsStep \/ Format \/ RenderStep

SpecEngine == InitEngine /\ [][NextEngine]_vars

NextPure ==
  \E i \in 1..NumCalls :
    CallFormat(i) \/ CallRenderReset(i) \/ CallRenderNode(i)
    \/ CallRenderFinish(i)

SpecPure == InitPure /\ [][NextPure]_vars

(***************************************************************************)
(* Properties                                                              *)
(***************************************************************************)

\* the lines of a text: the segments its line breaks terminate, and the
\* unterminated rest when the text does not end with a line break
OutLines(t) ==
  IF t = <<>> THEN <<>>
  ELSE IF Last(t) = "\n" THEN Front(Split(t, "\n")) ELSE Split(t, "\n")

IsBlank(line) == TrimSpace(line) = <<>>

\* some run of n consecutive blank lines
HasBlankRun(lines, n) ==
  \E i \in 1..(Len(lines) - n + 1) : \A j \in i..(i + n - 1) : IsBlank(lines[j])

HasBreak(t) == \E i \in 1..Len(t) : t[i] = "\n"

RECURSIVE ListsIn(_)
\* every list of a tree, at any depth
ListsIn(node) ==
  CASE node.type = "Document" ->
         UNION {ListsIn(node.Children[i]) : i \in 1..Len(node.Children)}
    [] node.type = "List" ->
         {node} \cup UNION {ListsIn(node.Items[i]) : i \in 1..Len(node.Items)}
    [] node.type = "ListItem" ->
         UNION {ListsIn(node.Children[i]) : i \in 1..Len(node.Children)}
    [] OTHER -> {}

\* the lists below the top level
NestedListsIn(d) ==
  UNION {UNION {ListsIn(d.Children[i].Items[k]) :
                  k \in 1..Len(d.Children[i].Items)} :
           i \in {j \in 1..Len(d.Children) : d.Children[j].type = "List"}}

\* the items of the unordered lists of a tree
UnorderedItemsIn(node) ==
  UNION {{l.Items[i] : i \in 1..Len(l.Items)} :
           l \in {u \in ListsIn(node) : ~u.Ordered}}

\* the paragraph a one-paragraph document holds
InText == prevDoc.Children[1].Text

\* C1: formatting and rendering are idempotent: a second Format of an
\* already formatted tree changes no field, and the second Render yields
\* the text of the first
C1_Idempotent ==
  /\ (pc = "formatted" /\ pass >= 1) => doc = prevDoc
  /\ (pc = "rendered" /\ pass >= 2) => out = prevOut

\* C2: for a paragraph without a link and a width W > 0, every line of the
\* output is at most W long, or is one single token of the input
C2_WidthBound ==
  (pc = "rendered" /\ cfg.LineWidth > 0 /\ ~containsMarkdownLinks(InText))
  => \A i \in 1..Len(OutLines(out)) :
       LET line == OutLines(out)[i]
       IN \/ Len(line) <= cfg.LineWidth
          \/ /\ Fields(line) = <<line>>
             /\ \E k \in 1..Len(Fields(InText)) : Fields(InText)[k] = line

\* a paragraph without link was wrapped into several lines: one is a token
\* longer than the width, another is exactly as long as the width
C2_Witness ==
  /\ pc = "rendered" /\ cfg.LineWidth > 0 /\ ~containsMarkdownLinks(InText)
  /\ \E i \in 1..Len(OutLines(out)) : Len(OutLines(out)[i]) > cfg.LineWidth
  /\ \E i \in 1..Len(OutLines(out)) :
       Len(OutLines(out)[i]) = cfg.LineWidth

\* C3: after Format every ordered list, at any depth, has the item markers
\* 1, 2, ..., N followed by the configured numbering token
C3_ListNumbering ==
  pc = "formatted"
  => \A l \in ListsIn(doc) :
       l.Ordered => \A i \in 1..Len(l.Items) :
                      l.Items[i].Marker = Digits(i) \o cfg.List.NumberStyle

\* a nested ordered list of several items that carried other markers was
\* renumbered below a parent list
C3_Witness ==
  /\ pc = "formatted" /\ pass = 0
  /\ \E l \in NestedListsIn(doc) : l.Ordered /\ Len(l.Items) >= 2
  /\ \E l \in NestedListsIn(prevDoc) :
       l.Ordered /\ Len(l.Items) >= 2 /\ l.Items[2].Marker = <<"7", ".">>
  /\ Len(doc.Children) = 2

C5_BlankLineCollapse ==
  pc = "rendered"
  => LET K == cfg.Whitespace.MaxBlankLines
         raw == renderDocument(doc, 0, cfg)
     IN /\ K >= 0 => ~HasBlankRun(OutLines(out), K + 1)
        /\ K < 0 => out \in {raw, raw \o <<"\n">>}

\* C6: after Format every item of every unordered list, at any depth, has
\* the configured bullet as marker and is rendered as bullet, space, text
C6_UniformBullets ==
  /\ pc \in {"formatted", "rendered"}
     => \A item \in UnorderedItemsIn(doc) : item.Marker = cfg.List.BulletStyle
  /\ pc = "rendered"
     => \A item \in UnorderedItemsIn(doc) :
          \E i \in 1..Len(OutLines(out)) :
            TrimLeft(OutLines(out)[i], {" "})
              = cfg.List.BulletStyle \o <<" ">> \o item.Text

\* a nested unordered list whose items carried another marker was rendered
C6_Witness ==
  /\ pc = "rendered" /\ pass = 1
  /\ \E l \in NestedListsIn(prevDoc) :
       ~l.Ordered /\ Len(l.Items) >= 2
       /\ l.Items[1].Marker # cfg.List.BulletStyle
  /\ \E l \in NestedListsIn(doc) : ~l.Ordered /\ Len(l.Items) >= 2

\* C7: with the defaults the document of a level-4 heading "Deep" and the
\* paragraph "foo   bar" is rendered to "#### Deep\n\nfoo bar\n"
C7_Scenario ==
  (pc = "rendered" /\ pass = 1 /\ cfg = Default
   /\ prevDoc = Document(<<DeepHeading, FooBar>>))
  => out = <<"#", "#", "#", "#", " ", "D", "e", "e", "p", "\n", "\n",
             "f", "o", "o", " ", "b", "a", "r", "\n">>

\* C8: a heading rendered in setext style is its text, a line break, an
\* underline of max(3, length of the trimmed text) markers and a blank line
C8_SetextUnderline ==
  (pc = "rendered" /\ doc.Children[1].Style = "setext"
   /\ doc.Children[1].Level \in 1..2)
  => LET h == doc.Children[1]
         n == Len(TrimSpace(h.Text))
         marker == IF h.Level = 1 THEN "=" ELSE "-"
     IN out = h.Text \o <<"\n">> \o Repeat(marker, IF n < 3 THEN 3 ELSE n)
              \o <<"\n", "\n">>

\* C9: a paragraph that contains a link is not reflowed: no line break is
\* inserted between its tokens and no link of the output holds a line break
C9_LinkParagraphNotReflowed ==
  (pc = "rendered" /\ pass = 1 /\ cfg.LineWidth > 0
   /\ containsMarkdownLinks(InText))
  => /\ ~HasBreak(InText) => ~HasBreak(TrimSpace(out))
     /\ \A i \in 1..Len(out) :
          LinkMatchEnd(out, i) # 0 => ~HasBreak(SubSeq(out, i, LinkMatchEnd(out, i)))

\* C10: both reflows keep the token sequence, a link being one token: the
\* tokens of the wrapped text are the tokens of the text
C10_ReflowKeepsTokens ==
  (pc = "formatted" /\ pass = 0 /\ cfg.LineWidth > 0)
  => /\ tokenizeWithLinks(ParagraphWrapText(InText, cfg.LineWidth))
          = tokenizeWithLinks(InText)
     /\ tokenizeWithLinks(RendererWrapText(InText, cfg.LineWidth))
          = tokenizeWithLinks(InText)

RECURSIVE StableByPriority(_)
\* a list in non-increasing priority, the rules of one priority in the order
\* they have in the list
StableByPriority(fs) ==
  IF fs = <<>> THEN <<>>
  ELSE LET m == CHOOSE p \in {fs[i].priority : i \in 1..Len(fs)} :
                  \A i \in 1..Len(fs) : fs[i].priority <= p
       IN SelectSeq(fs, LAMBDA f : f.priority = m)
          \o StableByPriority(SelectSeq(fs, LAMBDA f : f.priority # m))

\* C11: after any sequence of Register calls the rule list is in
\* non-increasing priority, rules of equal priority are in registration
\* order, and it holds exactly the registered rules
C11_RuleOrder ==
  /\ \A i \in 1..Len(formatters) : \A j \in i..Len(formatters) :
       formatters[i].priority >= formatters[j].priority
  /\ Len(formatters) = Len(registered)
  /\ formatters = StableByPriority(registered)

\* a rule was moved in front of rules registered before it, and two
\* different rules of one priority were registered one after the other
C11_Witness ==
  /\ \E i \in 1..Len(registered) : \E j \in (i + 1)..Len(registered) :
       registered[j].priority > registered[i].priority
  /\ \E i \in 1..Len(registered) : \E j \in (i + 1)..Len(registered) :
       /\ registered[i].kind = "userNoop" /\ registered[j].kind = "userFail"
       /\ registered[i].priority = registered[j].priority
  /\ Len(registered) > 2 * Len(DefaultFormatters)

\* the formatters of the engine that accept the k-th node of the walk
Accepting(k) ==
  {i \in 1..Len(formatters) :
     CanFormat(formatters[i].kind, WalkerNodes(prevDoc)[k].type)}

\* C12: in one Format pass at most one rule is invoked on each visited node,
\* the first of the engine's list that accepts the node's type, and the node
\* is left as that rule alone leaves it
C12_FirstMatchWins ==
  pc \in {"formatted", "failed"}
  => \A k \in 1..Len(invoked) :
       /\ Len(invoked[k]) <= 1
       /\ invoked[k] # <<>>
          => /\ invoked[k][1] \in Accepting(k)
             /\ \A j \in Accepting(k) : j >= invoked[k][1]
       /\ (pc = "formatted" /\ Accepting(k) # {}) => invoked[k] # <<>>
       /\ (pc = "formatted" /\ k > 1 /\ invoked[k] # <<>>)
          => doc.Children[k - 1]
               = FormatNode(formatters[invoked[k][1]].kind,
                            prevDoc.Children[k - 1], cfg)

\* with the defaults registered twice a paragraph that six rules accept was
\* formatted by the first of them only
C12_Witness ==
  /\ pc = "formatted"
  /\ Len(SelectSeq(registered, LAMBDA f : f.kind = "paragraph")) = 2
  /\ \E k \in 2..Len(invoked) :
       /\ prevDoc.Children[k - 1].type = "Paragraph"
       /\ Cardinality(Accepting(k)) >= 6
       /\ invoked[k] # <<>>
       /\ formatters[invoked[k][1]].kind = "paragraph"
       /\ doc.Children[k - 1] # prevDoc.Children[k - 1]

\* the priority the source declares for a built-in rule
DeclaredPriority(kind) ==
  CASE kind = "heading" -> HeadingFormatterPriority
    [] kind = "paragraph" -> ParagraphFormatterPriority
    [] kind = "list" -> ListFormatterPriority
    [] kind = "code" -> CodeFormatterPriority
    [] kind = "inline" -> InlineFormatterPriority
    [] kind = "whitespace" -> WhitespaceFormatterPriority

\* C13: the built-in rules of an engine carry their declared priorities, and
\* a rule of a caller stands before exactly the built-in rules whose
\* declared priority is lower than its own
C13_BuiltinPriorities ==
  /\ \A i \in 1..Len(formatters) :
       formatters[i].kind \notin UserKinds
       => formatters[i].priority = DeclaredPriority(formatters[i].kind)
  /\ \A u \in 1..Len(formatters) : \A b \in 1..Len(formatters) :
       (formatters[u].kind \in UserKinds /\ formatters[b].kind \notin UserKinds)
       => (u < b <=> DeclaredPriority(formatters[b].kind)
                       < formatters[u].priority)

\* C14: when a rule returns an error on a node, Format returns the error, no
\* rule is invoked on a later node of the walk and the later nodes are as
\* they were
C14_FailureAborts ==
  pc \in {"formatted", "failed"}
  => \A k \in 1..Len(invoked) :
       (invoked[k] # <<>>
        /\ FormatFails(formatters[invoked[k][1]].kind, WalkerNodes(prevDoc)[k]))
       => /\ formatErr
          /\ \A j \in (k + 1)..Len(invoked) :
               /\ invoked[j] = <<>>
               /\ WalkerNodes(doc)[j] = WalkerNodes(prevDoc)[j]

\* a rule failed on a node after an earlier node was changed and before a
\* node that the pass would have changed
C14_Witness ==
  /\ pc = "failed" /\ formatErr
  /\ \E k \in 2..(Len(invoked) - 1) :
       /\ invoked[k] # <<>>
       /\ formatters[invoked[k][1]].kind = "userFail"
       /\ \E j \in 2..(k - 1) : WalkerNodes(doc)[j] # WalkerNodes(prevDoc)[j]
       /\ \E j \in (k + 1)..Len(invoked) :
            /\ WalkerNodes(doc)[j] = WalkerNodes(prevDoc)[j]
            /\ FormatLoop(SelectSeq(formatters, LAMBDA f : f.kind # "userFail"),
                          1, WalkerNodes(prevDoc)[j], cfg).node
                 # WalkerNodes(prevDoc)[j]

\* C15: when the Format pass fails the tree is never rendered: the call has
\* returned the failure with no output text
C15_NoRenderAfterFailure ==
  formatErr => (pc = "failed" /\ out = <<>> /\ pass = 0)

\* a pass failed on a tree it had already changed in part
C15_Witness ==
  /\ formatErr /\ pc = "failed"
  /\ doc # prevDoc
  /\ out = <<>>

\* the node types renderNode has a case for
SupportedTypes ==
  {"Heading", "Paragraph", "List", "ListItem", "CodeBlock", "Text"}

\* C16: when the tree holds a node of a type the serializer does not support
\* Render returns a failure and no output text
C16_RenderFailure ==
  (pc \in {"rendered", "renderfailed"}
   /\ \E i \in 1..Len(doc.Children) : doc.Children[i].type \notin SupportedTypes)
  => (pc = "renderfailed" /\ out = <<>>)

\* no line of the text ends with a space or a tab
NoTrailingSpace(t) ==
  \A i \in 1..Len(Split(t, "\n")) :
    LET line == Split(t, "\n")[i]
    IN line = <<>> \/ Last(line) \notin {" ", "\t"}

\* the leading spaces and tabs of a line
Indentation(line) ==
  SubSeq(line, 1, Len(line) - Len(TrimLeft(line, {" ", "\t"})))

\* C19: after Format with trim-trailing-spaces and the default rules no line
\* of a paragraph text, heading text, text content or code block content
\* ends with a space or a tab, and every code block line keeps its leading
\* indentation
C19_WhitespaceRule ==
  (pc = "formatted" /\ cfg.Whitespace.TrimTrailingSpaces)
  => \A i \in 1..Len(doc.Children) :
       LET n == doc.Children[i]
           before == prevDoc.Children[i]
       IN CASE n.type \in {"Paragraph", "Heading"} -> NoTrailingSpace(n.Text)
            [] n.type = "Text" -> NoTrailingSpace(n.Content)
            [] n.type = "CodeBlock" ->
                 /\ NoTrailingSpace(n.Content)
                 /\ Len(Split(n.Content, "\n")) = Len(Split(before.Content, "\n"))
                 /\ \A k \in 1..Len(Split(n.Content, "\n")) :
                      Indentation(Split(n.Content, "\n")[k])
                        = Indentation(Split(before.Content, "\n")[k])
            [] OTHER -> TRUE

\* C20: the code-block rule sets the fence of a fenced block to the
\* configured token and nothing else, changes no field of an unfenced block,
\* and never fails
C20_CodeBlockFrame ==
  (pc \in {"formatted", "failed"} /\ pass = 0)
  => LET before == prevDoc.Children[1]
         after == doc.Children[1]
     IN /\ ~formatErr
        /\ before.Fenced
           => after = [before EXCEPT !.Fence = cfg.Code.FenceStyle]
        /\ ~before.Fenced => after = before
        /\ after.Content = before.Content
        /\ after.Language = before.Language
        /\ after.Fenced = before.Fenced

RECURSIVE Shape(_)
\* the structure of a tree: the types of its nodes, their order below their
\* parents and the ordered flag of its lists
Shape(node) ==
  CASE node.type = "Document" ->
         [type |-> "Document",
          nodes |-> [i \in 1..Len(node.Children) |-> Shape(node.Children[i])]]
    [] node.type = "List" ->
         [type |-> "List", Ordered |-> node.Ordered,
          nodes |-> [i \in 1..Len(node.Items) |-> Shape(node.Items[i])]]
    [] node.type = "ListItem" ->
         [type |-> "ListItem",
          nodes |-> [i \in 1..Len(node.Children) |-> Shape(node.Children[i])]]
    [] OTHER -> [type |-> node.type]

\* C18: Engine.Format leaves the number, types and order of the nodes, the
\* ordered flags and the item counts as they were, and Render changes no
\* field of any node
C18_TreeStructure ==
  [][/\ (pc # "formatted" /\ pc' \in {"formatted", "failed"})
        => Shape(doc') = Shape(doc)
     /\ pc = "formatted" => doc' = doc]_vars

\* a tree with a nested list had fields rewritten by Format and was rendered
C18_Witness ==
  /\ pc = "rendered" /\ pass = 1
  /\ doc # prevDoc
  /\ Shape(doc) = Shape(prevDoc)
  /\ NestedListsIn(doc) # {}
  /\ out # <<>>

\* C17: the text an invocation returns is a function of its own input tree
\* and configuration, whatever the other invocations do meanwhile: equal
\* inputs give equal texts
C17_PureFunction ==
  /\ \A i \in 1..NumCalls :
       calls[i].pc = "done"
       => calls[i].out
            = Render(EngineFormat(RegisterDefaults(New), calls[i].input,
                                  calls[i].cfg), calls[i].cfg)
  /\ \A i \in 1..NumCalls : \A j \in 1..NumCalls :
       (calls[i].pc = "done" /\ calls[j].pc = "done"
        /\ calls[i].input = calls[j].input /\ calls[i].cfg = calls[j].cfg)
       => calls[i].out = calls[j].out

\* two invocations whose renders were interleaved returned: one pair with
\* the same input and one text, the other with another configuration
C17_Witness ==
  /\ calls[1].pc = "done" /\ calls[2].pc = "done"
  /\ calls[1].overlapped /\ calls[2].overlapped
  /\ calls[1].input = calls[2].input
  /\ calls[1].cfg = calls[2].cfg
  /\ Len(calls[1].input.Children) >= 2
  /\ calls[1].out = calls[2].out
  /\ calls[1].out # <<>>

\* the positions of a text that lie inside the label of a link construct
LabelPositions(t) ==
  {p \in 1..Len(t) :
     \E i \in 1..Len(t) :
       /\ LinkMatchEnd(t, i) # 0
       /\ i < p /\ p < IndexFrom(t, "]", i + 1)}

\* C21: after the repair step of the renderer no link construct of the
\* paragraph has a line break inside its label; the repair replaces line
\* breaks inside labels by single spaces and changes nothing else
C21_LinkRepair ==
  pc = "rendered"
  => LET t == doc.Children[1].Text
         r == fixBrokenLinks(t)
     IN /\ \A p \in LabelPositions(r) : r[p] # "\n"
        /\ \A p \in LabelPositions(out) : out[p] # "\n"
        /\ Len(r) = Len(t)
        /\ \A p \in 1..Len(t) :
             r[p] # t[p]
             => (t[p] = "\n" /\ r[p] = " " /\ p \in LabelPositions(t))

\* C27: with normalize-levels no heading of the formatted document is more
\* than one level deeper than the heading before it
C27_NoLevelJumps ==
  (pc \in {"formatted", "rendered"} /\ cfg.Heading.NormalizeLevels)
  => \A i \in 2..Len(doc.Children) :
       doc.Children[i].Level <= doc.Children[i - 1].Level + 1

\* C28: for K >= 0 the lines Render writes for a code block are the lines of
\* its content, in number and order, in the final text: the lines between
\* the fences of a fenced block, the indented lines of an unfenced one
C28_CodeContentKept ==
  (pc = "rendered" /\ cfg.Whitespace.MaxBlankLines >= 0)
  => \A i \in 1..Len(doc.Children) :
       doc.Children[i].type = "CodeBlock"
       => LET b == doc.Children[i]
              content == OutLines(b.Content)
              written == IF b.Fenced THEN content
                         ELSE [k \in 1..Len(Split(b.Content, "\n")) |->
                                 <<" ", " ", " ", " ">>
                                 \o Split(b.Content, "\n")[k]]
              lines == OutLines(out)
          IN \E from \in 0..(Len(lines) - Len(written)) :
               \A k \in 1..Len(written) : lines[from + k] = written[k]

(***************************************************************************)
(* package config: Validate                                                *)
(***************************************************************************)

\* contains(slice, item)
contains(slice, item) == \E i \in 1..Len(slice) : slice[i] = item

\* Validate with the line width check one off
ValidateAllowingZero(c) ==
  IF c.LineWidth < 0 THEN "line_width must be greater than 0"
  ELSE IF c.Heading.Style # "atx" /\ c.Heading.Style # "setext"
  THEN "heading.style must be 'atx' or 'setext'"
  ELSE IF ~contains(<< <<"-">>, <<"*">>, <<"+">> >>, c.List.BulletStyle)
  THEN "list.bullet_style must be '-', '*', or '+'"
  ELSE IF ~contains(<< <<".">>, <<")">> >>, c.List.NumberStyle)
  THEN "list.number_style must be '.' or ')'"
  ELSE IF ~contains(<<BacktickFence, TildeFence>>, c.Code.FenceStyle)
  THEN "code.fence_style must be fenced"
  ELSE IF c.Whitespace.MaxBlankLines < 0
  THEN "whitespace.max_blank_lines must be >= 0"
  ELSE "nil"

\* Config.Validate: the message of the first failed check, "nil" when every
\* check passes
Validate(c) ==
  IF c.LineWidth < 1 THEN "line_width must be greater than 0"
  ELSE IF c.Heading.Style # "atx" /\ c.Heading.Style # "setext"
  THEN "heading.style must be 'atx' or 'setext'"
  ELSE IF ~contains(<< <<"-">>, <<"*">>, <<"+">> >>, c.List.BulletStyle)
  THEN "list.bullet_style must be '-', '*', or '+'"
  ELSE IF ~contains(<< <<".">>, <<")">> >>, c.List.NumberStyle)
  THEN "list.number_style must be '.' or ')'"
  ELSE IF ~contains(<<BacktickFence, TildeFence>>, c.Code.FenceStyle)
  THEN "code.fence_style must be fenced"
  ELSE IF c.Whitespace.MaxBlankLines < 0
  THEN "whitespace.max_blank_lines must be >= 0"
  ELSE "nil"

\* the configurations loadConfig can hand to Validate: the default one with
\* fields overridden by a configuration file
ValidateConfigs ==
  {[Default EXCEPT !.LineWidth = w, !.Heading.Style = s,
                   !.List.BulletStyle = b, !.List.NumberStyle = n,
                   !.Code.FenceStyle = f, !.Whitespace.MaxBlankLines = k] :
     w \in {-1, 0, 1, DefaultLineWidth},
     s \in {"atx", "setext", "underline"},
     b \in {<<"-">>, <<"*">>, <<"+">>, <<"o">>},
     n \in {<<".">>, <<")">>, <<":">>},
     f \in {BacktickFence, TildeFence, <<"~", "~">>},
     k \in {-1, 0, DefaultMaxBlankLines}}

\* loadConfig before cfg.Validate()
InitValidate ==
  /\ cfg \in ValidateConfigs
  /\ pc = "loaded"
  /\ validateErr = <<>>
  /\ formatters = <<>>
  /\ registered = <<>>
  /\ doc = Document(<<>>)
  /\ out = <<>>
  /\ prevDoc = doc
  /\ prevOut = <<>>
  /\ pass = 0
  /\ invoked = <<>>
  /\ formatErr = FALSE
  /\ calls = <<>>
  /\ renderers = <<>>
  /\ find = <<>>
  /\ batch = <<>>
  /\ ps = <<>>

\* cfg.Validate() in loadConfig
ValidateStep ==
  /\ pc = "loaded"
  /\ validateErr' = <<Validate(cfg)>>
  /\ pc' = "validated"
  /\ UNCHANGED <<formatters, registered, doc, cfg, out, prevDoc, prevOut,
                 pass, invoked, formatErr, calls, renderers, find, batch, ps>>

NextValidate == ValidateStep

SpecValidate == InitValidate /\ [][NextValidate]_vars

\* C26: Validate returns an error exactly when the line width is below 1,
\* the heading style is not atx or setext, the bullet style is not -, * or +,
\* the number style is not . or ), the fence style is not one of the two
\* fences, or max blank lines is negative; the default configuration is
\* valid; the configuration is the same after the call
C26_Validate ==
  [][(pc = "loaded" /\ pc' = "validated")
     => /\ cfg' = cfg
        /\ (validateErr'[1] # "nil")
           <=> \/ cfg.LineWidth < 1
               \/ cfg.Heading.Style \notin {"atx", "setext"}
               \/ cfg.List.BulletStyle \notin {<<"-">>, <<"*">>, <<"+">>}
               \/ cfg.List.NumberStyle \notin {<<".">>, <<")">>}
               \/ cfg.Code.FenceStyle \notin {BacktickFence, TildeFence}
               \/ cfg.Whitespace.MaxBlankLines < 0
        /\ cfg = Default => validateErr'[1] = "nil"]_vars

C26_Witness ==
  /\ pc = "validated"
  /\ cfg.LineWidth = 0
  /\ cfg = [Default EXCEPT !.LineWidth = 0]
  /\ validateErr[1] # "nil"

(***************************************************************************)
(* package processor: FindFiles                                            *)
(*                                                                         *)
(* A path is the sequence of its elements, each a string; an absolute path *)
(* starts with the element Root.  The paths here are clean apart from "."  *)
(* elements, so strings.HasPrefix(path, dir + "/") is a prefix of elements.*)
(***************************************************************************)

Root == <<"/">>

Dot == <<".">>

NodeModules == <<"n", "o", "d", "e", "_", "m", "o", "d", "u", "l", "e", "s">>

\* filepath.IsAbs(path)
IsAbs(path) == path # <<>> /\ path[1] = Root

\* filepath.Clean(path), for paths without ".." elements
Clean(path) ==
  LET kept == SelectSeq(path, LAMBDA e : e # Dot)
  IN IF kept = <<>> THEN <<Dot>> ELSE kept

\* the working directory of the process
Getwd == <<Root, <<"w">> >>

\* filepath.Abs(path)
Abs(path) ==
  IF IsAbs(path) THEN Clean(path) ELSE Clean(Getwd \o path)

\* filepath.Base(path)
Base(path) == path[Len(path)]

\* filepath.Ext(path): the suffix of the last element from its last dot on
Ext(path) ==
  LET name == Base(path)
      dots == {i \in 1..Len(name) : name[i] = "."}
  IN IF dots = {} THEN <<>>
     ELSE SubSeq(name, CHOOSE i \in dots : \A j \in dots : j <= i, Len(name))

\* unicode.ToLower on the letters that occur
ToLowerRune(r) ==
  CASE r = "M" -> "m"
    [] r = "D" -> "d"
    [] r = "T" -> "t"
    [] r = "X" -> "x"
    [] OTHER -> r

\* strings.ToLower(s)
ToLower(s) == [i \in 1..Len(s) |-> ToLowerRune(s[i])]

\* Default().Files
DefaultFiles ==
  [Extensions |-> << <<".", "m", "d">>,
                     <<".", "m", "a", "r", "k", "d", "o", "w", "n">>,
                     <<".", "m", "d", "o", "w", "n">> >>,
   IgnorePatterns |-> << [dir |-> <<NodeModules>>, suffix |-> "/**"],
                         [dir |-> << <<".", "g", "i", "t">> >>, suffix |-> "/**"],
                         [dir |-> << <<"v", "e", "n", "d", "o", "r">> >>,
                          suffix |-> "/**"] >>]

\* strings.HasPrefix(path, dirPattern + "/")
HasDirPrefix(path, dirPattern) ==
  /\ Len(path) > Len(dirPattern)
  /\ SubSeq(path, 1, Len(dirPattern)) = dirPattern

\* Config.ShouldIgnore(path), for patterns that end in "/**"
ShouldIgnore(path) ==
  LET p == Clean(path)
  IN \E i \in 1..Len(DefaultFiles.IgnorePatterns) :
       LET dirPattern == DefaultFiles.IgnorePatterns[i].dir
       IN HasDirPrefix(p, dirPattern) \/ p = dirPattern

\* FileProcessor.shouldIgnoreFile(path)
shouldIgnoreFile(path) == ShouldIgnore(path)

\* FileProcessor.isMarkdownFile(path)
isMarkdownFile(path) ==
  LET ext == ToLower(Ext(path))
  IN \E i \in 1..Len(DefaultFiles.Extensions) :
       ext = DefaultFiles.Extensions[i]

\* the directory tree: each directory with its entries in the order
\* os.ReadDir delivers them (sorted by name)
ReadmeMd == <<"R", ".", "m", "d">>

GuideMD == <<"g", ".", "M", "D">>

NotesTxt == <<"n", ".", "t", "x", "t">>

ApiMarkdown == <<"a", ".", "m", "a", "r", "k", "d", "o", "w", "n">>

PkgMd == <<"p", ".", "m", "d">>

ReadDir ==
  (Getwd :> <<ReadmeMd, <<"d">>, NodeModules>>)
  @@ (Getwd \o << <<"d">> >> :> <<GuideMD, NotesTxt, <<"s">> >>)
  @@ (Getwd \o << <<"d">>, <<"s">> >> :> <<ApiMarkdown>>)
  @@ (Getwd \o <<NodeModules>> :> <<PkgMd>>)

\* d.IsDir() and info.IsDir()
IsDir(path) == path \in DOMAIN ReadDir

\* os.Stat(path) succeeds
Exists(path) ==
  \/ IsDir(path)
  \/ /\ Len(path) > 1
     /\ SubSeq(path, 1, Len(path) - 1) \in DOMAIN ReadDir
     /\ \E i \in 1..Len(ReadDir[SubSeq(path, 1, Len(path) - 1)]) :
          ReadDir[SubSeq(path, 1, Len(path) - 1)][i] = Base(path)

\* the callback findFilesInDirectory gives to filepath.WalkDir
walkFn(path, files, seen) ==
  IF Abs(path) \in seen THEN [files |-> files, skipDir |-> FALSE]
  ELSE IF shouldIgnoreFile(path)
  THEN [files |-> files, skipDir |-> IsDir(path)]
  ELSE IF ~IsDir(path) /\ isMarkdownFile(path)
  THEN [files |-> Append(files, [Path |-> path, IsDirectory |-> FALSE]),
        skipDir |-> FALSE]
  ELSE [files |-> files, skipDir |-> FALSE]

RECURSIVE WalkDir(_, _, _)
RECURSIVE walkEntries(_, _, _, _)

\* filepath.WalkDir(path, walkFn): the callback on the path itself, then on
\* the entries of a directory that was not skipped
WalkDir(path, files, seen) ==
  LET r == walkFn(path, files, seen)
  IN IF IsDir(path) /\ ~r.skipDir
     THEN walkEntries(path, 1, r.files, seen)
     ELSE r.files

\* the entries of dir from the k-th on
walkEntries(dir, k, files, seen) ==
  IF k > Len(ReadDir[dir]) THEN files
  ELSE walkEntries(dir, k + 1,
                   WalkDir(Append(dir, ReadDir[dir][k]), files, seen), seen)

\* FileProcessor.findFilesInDirectory(dir, files, seen)
findFilesInDirectory(dir, files, seen) == WalkDir(dir, files, seen)

\* FileProcessor.findFilesInPath(path, files, seen); seen is the set of the
\* keys that the map holds with value true
findFilesInPath(path, files, seen) ==
  LET cleanPath == Abs(path)
      marked == seen \cup {cleanPath}
  IN IF cleanPath \in seen THEN [files |-> files, seen |-> seen, err |-> FALSE]
     ELSE IF ~Exists(cleanPath)
     THEN [files |-> files, seen |-> marked, err |-> TRUE]
     ELSE IF IsDir(cleanPath)
     THEN [files |-> findFilesInDirectory(cleanPath, files, marked),
           seen |-> marked, err |-> FALSE]
     ELSE IF isMarkdownFile(cleanPath) /\ ~shouldIgnoreFile(cleanPath)
     THEN [files |-> Append(files, [Path |-> cleanPath,
                                    IsDirectory |-> FALSE]),
           seen |-> marked, err |-> FALSE]
     ELSE [files |-> files, seen |-> marked, err |-> FALSE]

\* the path arguments of the command line: relative and absolute, files and
\* directories, one of them missing
PathArgs ==
  {<<Dot>>, << <<"d">> >>, << <<"d">>, GuideMD>>, << <<"d">>, NotesTxt>>,
   << <<"d">>, <<"s">> >>, <<ReadmeMd>>, <<NodeModules>>,
   <<NodeModules, PkgMd>>, << <<"x">> >>,
   Getwd, Getwd \o << <<"d">> >>, Getwd \o << <<"d">>, GuideMD>>}

MaxPaths == 2

\* FindFiles(paths) before its loop
InitFind ==
  /\ \E n \in 1..MaxPaths :
       \E paths \in [1..n -> PathArgs] :
         find = [paths |-> paths, i |-> 1, files |-> <<>>,
                 seen |-> {},
                 pc |-> "loop"]
  /\ cfg = Default
  /\ pc = "find"
  /\ validateErr = <<>>
  /\ formatters = <<>>
  /\ registered = <<>>
  /\ doc = Document(<<>>)
  /\ out = <<>>
  /\ prevDoc = doc
  /\ prevOut = <<>>
  /\ pass = 0
  /\ invoked = <<>>
  /\ formatErr = FALSE
  /\ calls = <<>>
  /\ renderers = <<>>
  /\ batch = <<>>
  /\ ps = <<>>

\* one iteration of the loop of FindFiles: findFilesInPath on the next path
\* argument, and the return of nil and an error when it fails
FindFilesStep ==
  /\ pc = "find"
  /\ find.pc = "loop"
  /\ find.i <= Len(find.paths)
  /\ LET r == findFilesInPath(find.paths[find.i], find.files, find.seen)
     IN find' = IF r.err
                THEN [find EXCEPT !.files = <<>>, !.seen = r.seen,
                                  !.pc = "failed"]
                ELSE [find EXCEPT !.files = r.files, !.seen = r.seen,
                                  !.i = find.i + 1]
  /\ UNCHANGED <<formatters, registered, doc, cfg, pc, out, prevDoc, prevOut,
                 pass, invoked, formatErr, calls, renderers, validateErr,
                 batch, ps>>

\* return files, nil
FindFilesReturn ==
  /\ pc = "find"
  /\ find.pc = "loop"
  /\ find.i > Len(find.paths)
  /\ find' = [find EXCEPT !.pc = "returned"]
  /\ UNCHANGED <<formatters, registered, doc, cfg, pc, out, prevDoc, prevOut,
                 pass, invoked, formatErr, calls, renderers, validateErr,
                 batch, ps>>

NextFind == FindFilesStep \/ FindFilesReturn

SpecFind == InitFind /\ [][NextFind]_vars

\* the path of a returned file relative to the working directory
RelToWd(path) == SubSeq(path, Len(Getwd) + 1, Len(path))

\* C25: every file FindFiles returns has one of the configured extensions,
\* compared without regard to case, and none lies under a directory that an
\* ignore pattern names (node_modules, .git, vendor)
C25_FindFilesFiltering ==
  (pc = "find" /\ find.pc = "returned")
  => \A k \in 1..Len(find.files) :
       LET path == find.files[k].Path
       IN /\ \E i \in 1..Len(DefaultFiles.Extensions) :
               ToLower(Ext(path)) = DefaultFiles.Extensions[i]
          /\ \A i \in 1..Len(DefaultFiles.IgnorePatterns) :
               ~HasDirPrefix(RelToWd(path), DefaultFiles.IgnorePatterns[i].dir)

\* C30: no path occurs twice in the files FindFiles returns
C30_NoDuplicates ==
  (pc = "find" /\ find.pc = "returned")
  => \A j, k \in 1..Len(find.files) :
       find.files[j].Path = find.files[k].Path => j = k

(***************************************************************************)
(* package main: processFiles                                              *)
(***************************************************************************)

ExitCodeError == 2

ExitCodeChangesNeeded == 1

\* formatMarkdownContent(content, cfg) on the tree p.Parse delivers for the
\* content: the error of Format or Render, else the rendered text
formatMarkdownContent(d, c) ==
  LET r == EngineWalk(New, d, c)
  IN IF r.err \/ RenderErr(r.doc) THEN [err |-> TRUE, formatted |-> <<>>]
     ELSE [err |-> FALSE, formatted |-> Render(r.doc, c)]

\* hasContentChanged(original, formatted)
hasContentChanged(original, formatted) ==
  TrimSpace(original) # TrimSpace(formatted)

\* handleFileOutput(filePath, formatted, changed, args): the error and the
\* content of the file afterwards; only write mode touches the file
handleFileOutput(file, formatted, changed, mode) ==
  IF mode = "write" /\ changed
  THEN IF file.writable THEN [err |-> FALSE, content |-> formatted]
       ELSE [err |-> TRUE, content |-> file.content]
  ELSE [err |-> FALSE, content |-> file.content]

\* processFile from handleFileOutput on, o being what handleFileOutput gives
processFileOutput(changed, o) ==
  IF o.err THEN [changed |-> FALSE, err |-> TRUE, content |-> o.content]
  ELSE [changed |-> changed, err |-> FALSE, content |-> o.content]

\* processFile from hasContentChanged on
processFileChanged(file, formatted, changed, mode) ==
  processFileOutput(changed,
                    handleFileOutput(file, formatted, changed, mode))

\* processFile after formatMarkdownContent, f being what it gives
processFileFormatted(file, f, mode) ==
  IF f.err THEN [changed |-> FALSE, err |-> TRUE, content |-> file.content]
  ELSE processFileChanged(file, f.formatted,
                          hasContentChanged(file.content, f.formatted), mode)

\* processFile(file, cfg, args)
processFile(file, c, mode) ==
  IF ~file.readable
  THEN [changed |-> FALSE, err |-> TRUE, content |-> file.content]
  ELSE processFileFormatted(file, formatMarkdownContent(file.doc, c), mode)

\* the files FindFiles hands to the loop, each with its content on disk and
\* the tree the parser builds from it: "a" and two line ends (the text
\* Render gives for it), "a" without a line end, a list with marker *, an
\* unreadable file, and a list in a file that cannot be written
BatchFiles ==
  LET para == Document(<<Paragraph(<<"a">>)>>)
      star == Document(<<List(FALSE, <<ListItem(<<"x">>, <<"*">>, <<>>)>>,
                              <<"*">>)>>)
  IN {[content |-> <<"a", "\n", "\n">>, doc |-> para, readable |-> TRUE,
       writable |-> TRUE],
      [content |-> <<"a">>, doc |-> para, readable |-> TRUE,
       writable |-> TRUE],
      [content |-> <<"*", " ", "x", "\n">>, doc |-> star, readable |-> TRUE,
       writable |-> TRUE],
      [content |-> <<"a">>, doc |-> para, readable |-> FALSE,
       writable |-> TRUE],
      [content |-> <<"*", " ", "x", "\n">>, doc |-> star, readable |-> TRUE,
       writable |-> FALSE]}

\* the operation flags validateFlags lets through: at most one of them
Modes == {"write", "check", "list", "diff", "stdout"}

MaxFiles == 2

\* processFiles after FindFiles
InitBatch ==
  /\ \E n \in 0..MaxFiles :
       \E files \in [1..n -> BatchFiles] :
         \E mode \in Modes :
           batch = [files |-> files, mode |-> mode, i |-> 1,
                    hasChanges |-> FALSE, processed |-> <<>>,
                    failed |-> FALSE, exit |-> -1]
  /\ cfg = Default
  /\ pc = "batch"
  /\ validateErr = <<>>
  /\ formatters = <<>>
  /\ registered = <<>>
  /\ doc = Document(<<>>)
  /\ out = <<>>
  /\ prevDoc = doc
  /\ prevOut = <<>>
  /\ pass = 0
  /\ invoked = <<>>
  /\ formatErr = FALSE
  /\ calls = <<>>
  /\ renderers = <<>>
  /\ find = <<>>
  /\ ps = <<>>

\* one iteration of the loop of processFiles; on an error processFiles
\* returns it and main exits with ExitCodeError
ProcessFileStep ==
  /\ pc = "batch"
  /\ batch.exit = -1
  /\ batch.i <= Len(batch.files)
  /\ \E r \in {processFile(batch.files[batch.i], cfg, batch.mode)} :
       batch' = IF r.err
                THEN [batch EXCEPT !.processed = Append(@, batch.i),
                                   !.files[batch.i].content = r.content,
                                   !.failed = TRUE, !.exit = ExitCodeError]
                ELSE [batch EXCEPT !.processed = Append(@, batch.i),
                                   !.files[batch.i].content = r.content,
                                   !.i = batch.i + 1,
                                   !.hasChanges = @ \/ r.changed]
  /\ UNCHANGED <<formatters, registered, doc, cfg, pc, out, prevDoc, prevOut,
                 pass, invoked, formatErr, calls, renderers, validateErr,
                 find, ps>>

\* after the loop (or with no file found): exit with ExitCodeChangesNeeded in
\* check mode with changes, else return nil and leave main with status 0
ProcessFilesExit ==
  /\ pc = "batch"
  /\ batch.exit = -1
  /\ batch.i > Len(batch.files)
  /\ batch' = [batch EXCEPT
                 !.exit = IF batch.mode = "check" /\ batch.hasChanges
                          THEN ExitCodeChangesNeeded ELSE 0]
  /\ UNCHANGED <<formatters, registered, doc, cfg, pc, out, prevDoc, prevOut,
                 pass, invoked, formatErr, calls, renderers, validateErr,
                 find, ps>>

NextBatch == ProcessFileStep \/ ProcessFilesExit

SpecBatch == InitBatch /\ [][NextBatch]_vars

\* C23: when the batch run has ended, processFile has run on every file,
\* also on those after a file that failed
C23_BatchContinues ==
  (pc = "batch" /\ batch.exit # -1)
  => \A k \in 1..Len(batch.files) :
       \E j \in 1..Len(batch.processed) : batch.processed[j] = k

\* C24: status 1 only in check mode; in check mode status 2 when an error
\* occurred, else status 1 exactly when the formatted text of some file
\* differs from its content, else status 0
C24_CheckExitStatus ==
  (pc = "batch" /\ batch.exit # -1)
  => /\ batch.exit = 1 => batch.mode = "check"
     /\ batch.mode = "check"
        => IF batch.failed THEN batch.exit = 2
           ELSE LET differs ==
                      \E k \in 1..Len(batch.files) :
                        formatMarkdownContent(batch.files[k].doc, cfg).formatted
                          # batch.files[k].content
                IN batch.exit = (IF differs THEN 1 ELSE 0)

(***************************************************************************)
(* package processor: ProcessFiles                                         *)
(*                                                                         *)
(* The files are 1..n.  The worker goroutines run the same code and have   *)
(* no state of their own besides the file they hold, so they are counted:  *)
(* started, holding a file (held), returned (exited); the rest wait at the *)
(* receive from jobs.  The results channel and the returned slice are kept *)
(* as the number of results per file.                                      *)
(***************************************************************************)

maxWorkers == 8

\* minInt(a, b)
minInt(a, b) == IF a < b THEN a ELSE b

MaxJobs == 9

\* the sum of the numbers per file
RECURSIVE Total(_, _)
Total(count, n) == IF n = 0 THEN 0 ELSE count[n] + Total(count, n - 1)

\* a range loop over a channel ends as soon as the channel is empty
rangeEndsWhenEmpty(closed, length) == length = 0

\* a range loop over a channel ends when the channel is closed and empty
rangeEnds(closed, length) == closed /\ length = 0

\* wg.Wait() that does not wait
wgWaitSkipped(wg) == TRUE

\* wg.Wait() returns when the counter is zero
wgWait(wg) == wg = 0

\* the workers waiting at the receive from jobs
Idle == ps.started - Cardinality(ps.held) - ps.exited

\* ProcessFiles(files, processor) at its entry
InitProcess ==
  /\ \E n \in 0..MaxJobs :
       ps = [n |-> n, main |-> "entry", workers |-> 0, started |-> 0,
             sent |-> 0,
             jobs |-> [buf |-> <<>>, cap |-> 0, closed |-> FALSE],
             results |-> [buf |-> [f \in 1..n |-> 0], cap |-> 0,
                          closed |-> FALSE],
             held |-> {}, exited |-> 0, wg |-> 0, closer |-> "none",
             allResults |-> [f \in 1..n |-> 0],
             invocations |-> [f \in 1..n |-> 0],
             panic |-> FALSE, blocked |-> FALSE, ret |-> "none"]
  /\ cfg = Default
  /\ pc = "process"
  /\ validateErr = <<>>
  /\ formatters = <<>>
  /\ registered = <<>>
  /\ doc = Document(<<>>)
  /\ out = <<>>
  /\ prevDoc = doc
  /\ prevOut = <<>>
  /\ pass = 0
  /\ invoked = <<>>
  /\ formatErr = FALSE
  /\ calls = <<>>
  /\ renderers = <<>>
  /\ find = <<>>
  /\ batch = <<>>

\* what ProcessFiles does not touch
outside == <<formatters, registered, doc, cfg, pc, out, prevDoc, prevOut,
             pass, invoked, formatErr, calls, renderers, validateErr, find,
             batch>>

\* workers := minInt(maxWorkers, len(files)); return nil for no worker, else
\* make the two channels
Enter ==
  /\ pc = "process" /\ ~ps.panic
  /\ ps.main = "entry"
  /\ LET workers == minInt(maxWorkers, ps.n)
     IN ps' = IF workers = 0
              THEN [ps EXCEPT !.main = "returned", !.ret = "nil"]
              ELSE [ps EXCEPT !.main = "spawn", !.workers = workers,
                              !.jobs.cap = ps.n, !.results.cap = ps.n]
  /\ UNCHANGED outside

\* one iteration of the loop that starts the workers: wg.Add(1); go func()
StartWorker ==
  /\ pc = "process" /\ ~ps.panic
  /\ ps.main = "spawn"
  /\ ps' = [ps EXCEPT !.wg = @ + 1, !.started = @ + 1,
                      !.main = IF ps.started + 1 < ps.workers THEN "spawn"
                               ELSE "send"]
  /\ UNCHANGED outside

\* jobs <- file, for the next file; the send waits while the buffer is full
SendJob ==
  /\ pc = "process" /\ ~ps.panic
  /\ ps.main = "send"
  /\ Len(ps.jobs.buf) < ps.jobs.cap
  /\ ps' = [ps EXCEPT !.jobs.buf = Append(@, ps.sent + 1), !.sent = @ + 1,
                      !.main = IF ps.sent + 1 < ps.n THEN "send" ELSE "close"]
  /\ UNCHANGED outside

\* close(jobs)
CloseJobs ==
  /\ pc = "process" /\ ~ps.panic
  /\ ps.main = "close"
  /\ ps' = [ps EXCEPT !.jobs.closed = TRUE, !.main = "go"]
  /\ UNCHANGED outside

\* go func() { wg.Wait(); close(results) }()
StartCloser ==
  /\ pc = "process" /\ ~ps.panic
  /\ ps.main = "go"
  /\ ps' = [ps EXCEPT !.closer = "wait", !.main = "collect"]
  /\ UNCHANGED outside

\* a worker receives the next file from jobs and calls processor(file)
WorkerReceive ==
  /\ pc = "process" /\ ~ps.panic
  /\ Idle > 0
  /\ ps.jobs.buf # <<>>
  /\ LET file == Head(ps.jobs.buf)
     IN ps' = [ps EXCEPT !.jobs.buf = Tail(@), !.held = @ \cup {file},
                         !.invocations[file] = @ + 1]
  /\ UNCHANGED outside

\* results <- the result the worker holds: a panic on a closed channel, else
\* the send waits while the buffer is full
WorkerSend(file) ==
  /\ pc = "process" /\ ~ps.panic
  /\ file \in ps.held
  /\ \/ /\ ps.results.closed
        /\ ps' = [ps EXCEPT !.panic = TRUE]
     \/ /\ ~ps.results.closed
        /\ Total(ps.results.buf, ps.n) < ps.results.cap
        /\ ps' = [ps EXCEPT !.results.buf[file] = @ + 1,
                            !.held = @ \ {file}]
  /\ UNCHANGED outside

\* the range over jobs ends in a worker: the deferred wg.Done()
WorkerExit ==
  /\ pc = "process" /\ ~ps.panic
  /\ Idle > 0
  /\ rangeEnds(ps.jobs.closed, Len(ps.jobs.buf))
  /\ ps' = [ps EXCEPT !.exited = @ + 1, !.wg = @ - 1]
  /\ UNCHANGED outside

\* wg.Wait() returns and the goroutine closes results
CloseResults ==
  /\ pc = "process" /\ ~ps.panic
  /\ ps.closer = "wait"
  /\ wgWait(ps.wg)
  /\ ps' = [ps EXCEPT !.results.closed = TRUE, !.closer = "done"]
  /\ UNCHANGED outside

\* one iteration of the range over results: allResults = append(...)
Collect(file) ==
  /\ pc = "process" /\ ~ps.panic
  /\ ps.main = "collect"
  /\ ps.results.buf[file] > 0
  /\ ps' = [ps EXCEPT !.results.buf[file] = @ - 1,
                      !.allResults[file] = @ + 1]
  /\ UNCHANGED outside

\* the range over results ends: return allResults
ReturnResults ==
  /\ pc = "process" /\ ~ps.panic
  /\ ps.main = "collect"
  /\ rangeEnds(ps.results.closed, Total(ps.results.buf, ps.n))
  /\ ps' = [ps EXCEPT !.main = "returned", !.ret = "allResults"]
  /\ UNCHANGED outside

NextProcess ==
  \/ Enter
  \/ StartWorker
  \/ SendJob
  \/ CloseJobs
  \/ StartCloser
  \/ WorkerReceive
  \/ \E file \in 1..ps.n : WorkerSend(file)
  \/ WorkerExit
  \/ CloseResults
  \/ \E file \in 1..ps.n : Collect(file)
  \/ ReturnResults

SpecProcess == InitProcess /\ [][NextProcess]_vars

\* the Go scheduler runs a goroutine that can run
SpecProcessFair ==
  InitProcess /\ [][NextProcess]_vars /\ WF_vars(NextProcess)

\* C22: when ProcessFiles returns, processor was called exactly once for
\* every file and the slice holds exactly one result per file, len(files)
\* in all; at no time was a file processed twice
C22_EachJobOnce ==
  pc = "process"
  => /\ \A f \in 1..ps.n : ps.invocations[f] <= 1
     /\ ps.ret = "allResults"
        => /\ \A f \in 1..ps.n :
                ps.invocations[f] = 1 /\ ps.allResults[f] = 1
           /\ Total(ps.allResults, ps.n) = ps.n

C22_Witness ==
  /\ pc = "process"
  /\ ps.n > maxWorkers
  /\ ps.ret = "allResults"
  /\ Total(ps.allResults, ps.n) = ps.n

\* no send waits on a full buffer, results is closed only after every worker
\* has returned, no result is sent on the closed channel, and there are at
\* most min(8, n) workers; for no file the call returns nil
ProcessSafe ==
  /\ ~ps.panic
  /\ ps.started <= minInt(maxWorkers, ps.n)
  /\ ps.main = "send" => Len(ps.jobs.buf) < ps.jobs.cap
  /\ ps.held # {} => Total(ps.results.buf, ps.n) < ps.results.cap
  /\ ps.results.closed => (ps.exited = ps.started /\ ps.held = {})
  /\ ps.n = 0 => ps.ret \in {"none", "nil"}
  /\ ps.ret = "nil" => (ps.n = 0 /\ ps.started = 0)

\* C29: ProcessFiles is safe in the above sense in every state and returns
\* in the end, for every number of files and every interleaving
C29_Terminates ==
  /\ [](pc = "process" => ProcessSafe)
  /\ <>(pc = "process" /\ ps.main = "returned")

C29_Witness ==
  /\ pc = "process"
  /\ ps.n > maxWorkers
  /\ ps.started = maxWorkers
  /\ ps.results.closed
  /\ ps.main = "returned"

====
